---- MODULE Spec2Model ----
(***************************************************************************)
(* Model of the AI Archives manager (tylerqr/ai.archives).                 *)
(*                                                                         *)
(* The repository ships two variants of the manager module:                *)
(*   "archives"  src/archives/core/archives_manager.py                     *)
(*   "core"      src/core/archives_manager.py                              *)
(* Callers import core.archives_manager first and fall back to             *)
(* archives.core.archives_manager (src/archives_api.py:22-27), so a        *)
(* running process uses exactly one of the two.  The variable `variant`    *)
(* records which one; every operation is translated once per variant.      *)
(*                                                                         *)
(* Text is modelled at character level: a Python str is a sequence of      *)
(* one-character strings, positions are 1-based (Python's are 0-based).    *)
(***************************************************************************)
EXTENDS Integers, Sequences, FiniteSets, TLC

VARIABLES
    variant,    \* which manager module the process imported
    fs,         \* the files on disk: path -> content (a path is a sequence of names)
    dirs,       \* the directories on disk (each a path)
    mtime,      \* path -> modification time of the file
    clock,      \* the wall clock (seconds)
    nadds,      \* number of add_to_archives calls made so far
    logs,       \* the history log files written (archives variant): their names
    last,       \* the last call made and what it returned
    san,        \* harness of the pure functions: input and results
    rules,      \* the rule files on disk: file name -> content
    upserts,    \* the update_custom_rules calls made so far, in order
    calls       \* the calls in flight: caller -> its position and local variables

vars == <<variant, fs, dirs, mtime, clock, nadds, logs, last, san, rules, upserts, calls>>

----------------------------------------------------------------------------
(* Characters *)

LowerLetters == <<"a","b","c","d","e","f","g","h","i","j","k","l","m",
                  "n","o","p","q","r","s","t","u","v","w","x","y","z">>
UpperLetters == <<"A","B","C","D","E","F","G","H","I","J","K","L","M",
                  "N","O","P","Q","R","S","T","U","V","W","X","Y","Z">>
Digits == <<"0","1","2","3","4","5","6","7","8","9">>

\* Characters written by name: the escape character \x1B, the backtick and
\* the apostrophe.
ESC == "ESC"
BT == "BT"
SQ == "SQ"

Range(s) == {s[i] : i \in 1..Len(s)}

IndexIn(c, s) == CHOOSE i \in 1..Len(s) : s[i] = c

IsLower(c) == c \in Range(LowerLetters)
IsUpper(c) == c \in Range(UpperLetters)
IsDigit(c) == c \in Range(Digits)
IsAlpha(c) == IsLower(c) \/ IsUpper(c)
\* str.isalnum() on one character
IsAlnum(c) == IsAlpha(c) \/ IsDigit(c)
\* the regex class \w
IsWordChar(c) == IsAlnum(c) \/ c = "_"
\* the regex class \s
IsSpace(c) == c \in {" ", "\n", "\t", "\r"}

LowerChar(c) == IF IsUpper(c) THEN LowerLetters[IndexIn(c, UpperLetters)] ELSE c
UpperChar(c) == IF IsLower(c) THEN UpperLetters[IndexIn(c, LowerLetters)] ELSE c

\* Code-point order of the characters that occur in file names.
CharOrder == <<".", "0","1","2","3","4","5","6","7","8","9", "_">> \o LowerLetters
Ord(c) == IndexIn(c, CharOrder)

----------------------------------------------------------------------------
(* Strings *)

\* s[a..b] with 1-based inclusive bounds, empty when a > b
Slice(s, a, b) == IF a > b THEN <<>> ELSE SubSeq(s, a, b)

\* str.lower()
Lower(s) == [i \in 1..Len(s) |-> LowerChar(s[i])]

\* str.capitalize(): first character upper-cased, the rest lower-cased
Capitalize(s) == [i \in 1..Len(s) |-> IF i = 1 THEN UpperChar(s[i]) ELSE LowerChar(s[i])]

\* p occurs in s starting at position i
StartsAt(s, i, p) ==
    /\ i >= 1
    /\ i + Len(p) - 1 <= Len(s)
    /\ \A k \in 1..Len(p) : s[i + k - 1] = p[k]

StartsWith(s, p) == StartsAt(s, 1, p)
EndsWith(s, p) == Len(p) <= Len(s) /\ StartsAt(s, Len(s) - Len(p) + 1, p)

\* str.find(p, from): the least position >= from where p occurs, 0 when there
\* is none (Python answers -1).  The empty string occurs at every position up
\* to Len(s) + 1.
Find(s, p, from) ==
    LET hits == {i \in from..(Len(s) - Len(p) + 1) : StartsAt(s, i, p)}
    IN  IF hits = {} THEN 0 ELSE CHOOSE i \in hits : \A j \in hits : i <= j

\* the Python test  p in s
Contains(s, p) == Find(s, p, 1) # 0

\* str.replace(old, new), old non-empty: leftmost non-overlapping occurrences
RECURSIVE ReplaceFrom(_, _, _, _)
ReplaceFrom(s, old, new, i) ==
    IF Find(s, old, i) = 0 THEN Slice(s, i, Len(s))
    ELSE Slice(s, i, Find(s, old, i) - 1) \o new
             \o ReplaceFrom(s, old, new, Find(s, old, i) + Len(old))

Replace(s, old, new) == ReplaceFrom(s, old, new, 1)

\* str.split(sep) for a one-character separator: the list of pieces
RECURSIVE SplitFrom(_, _, _, _)
SplitFrom(s, sep, i, cur) ==
    IF Find(s, <<sep>>, i) = 0 THEN <<cur \o Slice(s, i, Len(s))>>
    ELSE <<cur \o Slice(s, i, Find(s, <<sep>>, i) - 1)>>
             \o SplitFrom(s, sep, Find(s, <<sep>>, i) + 1, <<>>)

Split(s, sep) == SplitFrom(s, sep, 1, <<>>)

\* sep.join(pieces)
RECURSIVE Join(_, _)
Join(pieces, sep) ==
    IF Len(pieces) = 0 THEN <<>>
    ELSE IF Len(pieces) = 1 THEN pieces[1]
    ELSE pieces[1] \o sep \o Join(Tail(pieces), sep)

\* str.strip(): whitespace removed from both ends
RECURSIVE LStrip(_)
LStrip(s) == IF Len(s) > 0 /\ IsSpace(s[1]) THEN LStrip(Tail(s)) ELSE s
RECURSIVE RStrip(_)
RStrip(s) == IF Len(s) > 0 /\ IsSpace(s[Len(s)]) THEN RStrip(Slice(s, 1, Len(s) - 1)) ELSE s
Strip(s) == RStrip(LStrip(s))

\* str.lstrip(ch): leading occurrences of one character removed
RECURSIVE LStripChar(_, _)
LStripChar(s, ch) == IF Len(s) > 0 /\ s[1] = ch THEN LStripChar(Tail(s), ch) ELSE s

\* the number of lines a text file yields when iterated: every "\n" ends a
\* line, and a non-empty remainder after the last "\n" is a line too
LineCount(s) ==
    Cardinality({i \in 1..Len(s) : s[i] = "\n"})
        + (IF Len(s) > 0 /\ s[Len(s)] # "\n" THEN 1 ELSE 0)

----------------------------------------------------------------------------
(* Regular-expression substitution *)

\* the length of the longest run of characters satisfying P that starts at i
RunLen(s, i, P(_)) ==
    IF i > Len(s) THEN 0
    ELSE CHOOSE n \in 0..(Len(s) - i + 1) :
            /\ \A k \in 0..(n - 1) : P(s[i + k])
            /\ (i + n > Len(s) \/ ~P(s[i + n]))

\* pattern.sub over s given, for every start position, the length of the match
\* there (0: no match; no pattern of this program matches the empty string)
\* and its replacement: leftmost matches, non-overlapping, scanned left to right
RECURSIVE SubWith(_, _, _, _)
NextMatch(s, i, mlen) ==   \* the least position >= i with a match, 0 when none
    IF \A j \in i..Len(s) : mlen[j] = 0 THEN 0
    ELSE CHOOSE j \in i..Len(s) : mlen[j] > 0 /\ \A k \in i..(j - 1) : mlen[k] = 0

SubWith(s, i, mlen, rep) ==
    IF NextMatch(s, i, mlen) = 0 THEN Slice(s, i, Len(s))
    ELSE Slice(s, i, NextMatch(s, i, mlen) - 1) \o rep[NextMatch(s, i, mlen)]
             \o SubWith(s, NextMatch(s, i, mlen) + mlen[NextMatch(s, i, mlen)], mlen, rep)

RegexSub(s, M(_, _), R(_, _, _)) ==
    SubWith(s, 1, [i \in 1..Len(s) |-> M(s, i)],
                  [i \in 1..Len(s) |-> R(s, i, M(s, i))])

RepEmpty(s, i, n) == <<>>

\* ANSI_COLOR_PATTERN  \x1B\[\d+(;\d+)*(;*[mK])  : match length at i
RECURSIVE AnsiGroups(_, _)
AnsiGroups(s, j) ==   \* position after the greedy (;\d+)* starting at j
    IF j <= Len(s) /\ s[j] = ";" /\ RunLen(s, j + 1, IsDigit) >= 1
    THEN AnsiGroups(s, j + 1 + RunLen(s, j + 1, IsDigit))
    ELSE j

IsSemi(c) == c = ";"

AnsiLen(s, i) ==
    IF ~StartsAt(s, i, <<ESC, "[">>) THEN 0
    ELSE LET d == RunLen(s, i + 2, IsDigit)
             g == AnsiGroups(s, i + 2 + d)
             e == g + RunLen(s, g, IsSemi)
         IN  IF d >= 1 /\ e <= Len(s) /\ s[e] \in {"m", "K"} THEN e - i + 1 ELSE 0

\* ERROR_MESSAGE_PATTERN  (\[31m|\[1m|\[22m|\[39m|Usage Error[^\n]*)
UsageError == <<"U", "s", "a", "g", "e", " ", "E", "r", "r", "o", "r">>
NotNewline(c) == c # "\n"

ErrorLen(s, i) ==
    IF StartsAt(s, i, <<"[", "3", "1", "m">>) THEN 4
    ELSE IF StartsAt(s, i, <<"[", "1", "m">>) THEN 3
    ELSE IF StartsAt(s, i, <<"[", "2", "2", "m">>) THEN 4
    ELSE IF StartsAt(s, i, <<"[", "3", "9", "m">>) THEN 4
    ELSE IF StartsAt(s, i, UsageError)
         THEN Len(UsageError) + RunLen(s, i + Len(UsageError), NotNewline)
    ELSE 0

\* YARN_COMMAND_PATTERN  \$ +yarn +run +\[.*?\] +your-script
YourScript == <<"y", "o", "u", "r", "-", "s", "c", "r", "i", "p", "t">>
IsBlank(c) == c = " "

YarnLen(s, i) ==
    IF ~(i <= Len(s) /\ s[i] = "$") THEN 0
    ELSE LET a  == RunLen(s, i + 1, IsBlank)
             p1 == i + 1 + a
             b  == RunLen(s, p1 + 4, IsBlank)
             p2 == p1 + 4 + b
             c  == RunLen(s, p2 + 3, IsBlank)
             p3 == p2 + 3 + c
             \* the lazy .*? stops at the first "]" after which the rest matches
             ends == {e \in (p3 + 1)..Len(s) :
                        /\ s[e] = "]"
                        /\ \A k \in (p3 + 1)..(e - 1) : s[k] # "\n"
                        /\ RunLen(s, e + 1, IsBlank) >= 1
                        /\ StartsAt(s, e + 1 + RunLen(s, e + 1, IsBlank), YourScript)}
         IN  IF /\ a >= 1 /\ StartsAt(s, p1, <<"y", "a", "r", "n">>)
                /\ b >= 1 /\ StartsAt(s, p2, <<"r", "u", "n">>)
                /\ c >= 1 /\ StartsAt(s, p3, <<"[">>)
                /\ ends # {}
             THEN LET e == CHOOSE x \in ends : \A y \in ends : x <= y
                  IN  e + RunLen(s, e + 1, IsBlank) + Len(YourScript) - i + 1
             ELSE 0

YarnIos == <<BT, "y", "a", "r", "n", " ", "i", "o", "s", BT>>
RepYarnIos(s, i, n) == YarnIos

YarnIosAndroid ==
    <<BT, "y", "a", "r", "n", " ", "i", "o", "s", BT, " ", ".", ".", ".", " ",
      "t", "o", " ", "b", "u", "i", "l", "d", " ", "a", "n", "d", " ", "r", "u",
      "n", " ", "o", "n", " ", "A", "n", "d", "r", "o", "i", "d", " ", "s", "i",
      "m", "u", "l", "a", "t", "o", "r", " ", "o", "r", " ", "d", "e", "v", "i",
      "c", "e">>
YarnAndroid ==
    <<BT, "y", "a", "r", "n", " ", "a", "n", "d", "r", "o", "i", "d", BT, " ",
      "t", "o", " ", "b", "u", "i", "l", "d", " ", "a", "n", "d", " ", "r", "u",
      "n", " ", "o", "n", " ", "A", "n", "d", "r", "o", "i", "d", " ", "s", "i",
      "m", "u", "l", "a", "t", "o", "r", " ", "o", "r", " ", "d", "e", "v", "i",
      "c", "e">>
ScriptNameDots == <<"<", "s", "c", "r", "i", "p", "t", "N", "a", "m", "e", ">", " ", ".", ".", ".">>
YourScriptDots == <<"y", "o", "u", "r", "-", "s", "c", "r", "i", "p", "t", " ", ".", ".", ".">>

\* \n{3,}  ->  \n\n
IsNewline(c) == c = "\n"
NewlinesLen(s, i) ==
    LET n == RunLen(s, i, IsNewline) IN IF n >= 3 THEN n ELSE 0
RepTwoNewlines(s, i, n) == <<"\n", "\n">>

\* the steps both variants of sanitize_content share, in the order the code
\* applies them
StripAnsi(s) == RegexSub(s, AnsiLen, RepEmpty)
StripErrors(s) == RegexSub(s, ErrorLen, RepEmpty)
FixYarn(s) == RegexSub(s, YarnLen, RepYarnIos)
FixAndroid(s) == Replace(s, YarnIosAndroid, YarnAndroid)
FixScriptName(s) == Replace(s, ScriptNameDots, YourScriptDots)
CollapseNewlines(s) == RegexSub(s, NewlinesLen, RepTwoNewlines)

SanitizeCommon(content) ==
    CollapseNewlines(FixScriptName(FixAndroid(FixYarn(StripErrors(StripAnsi(content))))))

\* sanitize_content of the archives variant
SanitizeArchives(content) == [ok |-> TRUE, val |-> SanitizeCommon(content)]

----------------------------------------------------------------------------
(* sanitize_content of the core variant *)

\* ast.literal_eval of the content wrapped in triple double quotes.  The
\* source text is parsed as a Python expression.  Modelled syntax: string
\* literals (triple-quoted or single-line, either quote character), their
\* implicit concatenation, commas (a tuple), blanks, comments and line ends.
\* Any other character outside a string literal is a syntax error (true of
\* every character the inputs of this model place there).  Escapes decoded:
\* backslash followed by n, t, r, backslash, a quote character or a line
\* end; any other escape keeps its backslash.
Quote3(q) == <<q, q, q>>

Unescape(c) ==
    IF c = "n" THEN <<"\n">>
    ELSE IF c = "t" THEN <<"\t">>
    ELSE IF c = "r" THEN <<"\r">>
    ELSE IF c \in {"\\", "\"", SQ} THEN <<c>>
    ELSE IF c = "\n" THEN <<>>
    ELSE <<"\\", c>>

\* scans a string body from j; answers [ok, val, next]
RECURSIVE ScanBody(_, _, _, _, _)
ScanBody(src, j, q, triple, acc) ==
    IF j > Len(src) THEN [ok |-> FALSE, val |-> <<>>, next |-> j]
    ELSE IF src[j] = "\\" THEN
        IF j + 1 > Len(src) THEN [ok |-> FALSE, val |-> <<>>, next |-> j]
        ELSE ScanBody(src, j + 2, q, triple, acc \o Unescape(src[j + 1]))
    ELSE IF triple /\ StartsAt(src, j, Quote3(q)) THEN [ok |-> TRUE, val |-> acc, next |-> j + 3]
    ELSE IF ~triple /\ src[j] = q THEN [ok |-> TRUE, val |-> acc, next |-> j + 1]
    ELSE IF ~triple /\ src[j] = "\n" THEN [ok |-> FALSE, val |-> <<>>, next |-> j]
    ELSE ScanBody(src, j + 1, q, triple, Append(acc, src[j]))

ScanString(src, i) ==
    IF StartsAt(src, i, Quote3(src[i]))
    THEN ScanBody(src, i + 3, src[i], TRUE, <<>>)
    ELSE ScanBody(src, i + 1, src[i], FALSE, <<>>)

\* the position after a comment that starts at i (the line end is not part of it)
CommentEnd(src, i) == i + RunLen(src, i, NotNewline)

\* cur: the concatenation of the literals of the current element; hasCur: the
\* current element has a literal; ncomma: commas seen; sawNL: the logical line
\* has ended.  Answers [kind, val], kind one of "str", "tuple", "error".
RECURSIVE ParseExpr(_, _, _, _, _, _)
ParseExpr(src, i, cur, hasCur, ncomma, sawNL) ==
    IF i > Len(src) THEN
        IF ncomma > 0 THEN [kind |-> "tuple", val |-> <<>>]
        ELSE IF hasCur THEN [kind |-> "str", val |-> cur]
        ELSE [kind |-> "error", val |-> <<>>]
    ELSE IF src[i] = "#" THEN ParseExpr(src, CommentEnd(src, i), cur, hasCur, ncomma, sawNL)
    ELSE IF src[i] = "\n" THEN ParseExpr(src, i + 1, cur, hasCur, ncomma, TRUE)
    ELSE IF src[i] \in {" ", "\t"} /\ ~sawNL THEN ParseExpr(src, i + 1, cur, hasCur, ncomma, sawNL)
    ELSE IF sawNL THEN [kind |-> "error", val |-> <<>>]
    ELSE IF src[i] \in {"\"", SQ} THEN
        LET r == ScanString(src, i)
        IN  IF r.ok THEN ParseExpr(src, r.next, cur \o r.val, TRUE, ncomma, sawNL)
            ELSE [kind |-> "error", val |-> <<>>]
    ELSE IF src[i] = "," /\ hasCur THEN ParseExpr(src, i + 1, <<>>, FALSE, ncomma + 1, sawNL)
    ELSE [kind |-> "error", val |-> <<>>]

LiteralEval(content) ==
    ParseExpr(Quote3("\"") \o content \o Quote3("\""), 1, <<>>, FALSE, 0, FALSE)

HasEscapes(content) ==
    \/ Contains(content, <<"\\", "n">>)
    \/ Contains(content, <<"\\", "t">>)
    \/ Contains(content, <<"\\", "r">>)

\* (#+)([^#\s])  ->  \1 \2
IsHash(c) == c = "#"
HeaderLen(s, i) ==
    LET n == RunLen(s, i, IsHash)
    IN  IF n >= 1 /\ i + n <= Len(s) /\ ~IsSpace(s[i + n]) THEN n + 1 ELSE 0
RepSpaceBeforeLast(s, i, n) ==
    IF n = 0 THEN <<>> ELSE Slice(s, i, i + n - 2) \o <<" ", s[i + n - 1]>>

\* (\n\s*[-*])([^\s])  ->  \1 \2
BulletLen(s, i) ==
    IF ~(i <= Len(s) /\ s[i] = "\n") THEN 0
    ELSE LET w == RunLen(s, i + 1, IsSpace)
             j == i + 1 + w
         IN  IF j + 1 <= Len(s) /\ s[j] \in {"-", "*"} /\ ~IsSpace(s[j + 1])
             THEN w + 3 ELSE 0

\* ([^\n])```  ->  \1\n```
Fence == <<BT, BT, BT>>
FenceAfterLen(s, i) ==
    IF i <= Len(s) /\ s[i] # "\n" /\ StartsAt(s, i + 1, Fence) THEN 4 ELSE 0
RepFenceAfter(s, i, n) == IF n = 0 THEN <<>> ELSE <<s[i], "\n">> \o Fence

\* ```([^\n])  ->  ```\n\1
FenceBeforeLen(s, i) ==
    IF StartsAt(s, i, Fence) /\ i + 3 <= Len(s) /\ s[i + 3] # "\n" THEN 4 ELSE 0
RepFenceBefore(s, i, n) == IF n = 0 THEN <<>> ELSE Fence \o <<"\n", s[i + 3]>>

\* the trailing line is dropped when it repeats the leading "# " header
DropDuplicateHeader(s) ==
    LET lines == Split(s, "\n")
    IN  IF /\ Len(lines) > 2
           /\ StartsWith(lines[1], <<"#", " ">>)
           /\ Strip(lines[Len(lines)]) = Strip(lines[1])
        THEN Join(SubSeq(lines, 1, Len(lines) - 1), <<"\n">>)
        ELSE s

\* the markdown fixes of the core variant, in the order the code applies them
SpaceHeaders(s) == RegexSub(s, HeaderLen, RepSpaceBeforeLast)
SpaceBullets(s) == RegexSub(s, BulletLen, RepSpaceBeforeLast)
BreakBeforeFence(s) == RegexSub(s, FenceAfterLen, RepFenceAfter)
BreakAfterFence(s) == RegexSub(s, FenceBeforeLen, RepFenceBefore)

FormatMarkdown(s) ==
    DropDuplicateHeader(BreakAfterFence(BreakBeforeFence(SpaceBullets(SpaceHeaders(s)))))

\* the try block: the decoded content, the content itself when literal_eval
\* raises SyntaxError or ValueError, or whatever other value it answers
DecodeEscapes(content) ==
    IF HasEscapes(content) THEN LiteralEval(content) ELSE [kind |-> "error", val |-> <<>>]

\* ok = FALSE: the call raises (literal_eval answered a value that is not a
\* str, and the first pattern.sub rejects it with TypeError)
SanitizeDecoded(ev, content) ==
    IF ev.kind = "tuple" THEN [ok |-> FALSE, val |-> <<>>]
    ELSE [ok |-> TRUE,
          val |-> FormatMarkdown(SanitizeCommon(IF ev.kind = "str" THEN ev.val ELSE content))]

SanitizeCore(content) == SanitizeDecoded(DecodeEscapes(content), content)

\* sanitize_content as the imported module defines it
sanitize_content(v, content) ==
    IF v = "core" THEN SanitizeCore(content) ELSE SanitizeArchives(content)

----------------------------------------------------------------------------
(* Configuration and inputs *)

\* settings.max_file_lines (500 unless configured); a small value makes
\* rotation reachable
MaxFileLines == 4
\* the wall clock runs from 0 to MaxClock
MaxClock == 1
\* add_to_archives is called at most MaxAdds times
MaxAdds == 3

\* settings.archive_structure.projects: the configured project list.  Names
\* are kept short; "fe" is configured, "mob" is a project a caller names
\* that is not in the list.
ConfiguredProjects == << <<"f", "e">> >>
Projects == {<<"f", "e">>, <<"m", "o", "b">>}
\* section names a caller passes: one plain, one holding an underscore
Sections == {<<"s">>, <<"a", "_", "b">>}
\* entry bodies and titles a caller passes; the empty title stands for an
\* absent one (the code tests  if title / if not title)
Bodies == {<<"a", " ", "b">>, <<"b", " ", "a">>}
Titles == {<<>>, <<"T">>}
\* the one body the rotation runs add (the line count of an entry, not its
\* words, decides rotation)
StoreBodies == {<<"a", " ", "b">>}

----------------------------------------------------------------------------
(* File system *)

Put(f, k, v) == [x \in (DOMAIN f) \cup {k} |-> IF x = k THEN v ELSE f[x]]

\* the content of a document, an absent document counted as empty
ContentOf(files, p) == IF p \in DOMAIN files THEN files[p] ELSE <<>>

MdSuffix == <<".", "m", "d">>

\* glob.glob(os.path.join(dir, "*.md")): the files directly inside dir whose
\* name ends in .md
GlobMd(files, dir) ==
    {p \in DOMAIN files :
        /\ Len(p) = Len(dir) + 1
        /\ SubSeq(p, 1, Len(dir)) = dir
        /\ EndsWith(p[Len(p)], MdSuffix)}

\* glob.glob(os.path.join(dir, "*")) filtered by os.path.isdir
SubDirs(ds, dir) ==
    {d \in ds : Len(d) = Len(dir) + 1 /\ SubSeq(d, 1, Len(dir)) = dir}

\* string comparison a < b by code points
LexLess(a, b) ==
    \E k \in 1..(Len(a) + 1) :
        /\ k <= Len(b)
        /\ \A j \in 1..(k - 1) : a[j] = b[j]
        /\ (k = Len(a) + 1 \/ Ord(a[k]) < Ord(b[k]))

\* sorted(paths)[-1] for paths in one directory: the greatest file name
LastSorted(paths) ==
    CHOOSE p \in paths : \A q \in paths : q = p \/ LexLess(q[Len(q)], p[Len(p)])

\* str(n) for n >= 0
RECURSIVE DecStr(_)
DecStr(n) == IF n < 10 THEN <<Digits[n + 1]>> ELSE DecStr(n \div 10) \o <<Digits[(n % 10) + 1]>>

\* the format spec 03d / 02d: zero-padded to at least w digits
RECURSIVE ZeroPad(_, _)
ZeroPad(s, w) == IF Len(s) >= w THEN s ELSE ZeroPad(<<"0">> \o s, w)

\* int(s): defined for a non-empty string of digits, ValueError otherwise
IntOk(s) == Len(s) > 0 /\ \A i \in 1..Len(s) : IsDigit(s[i])
RECURSIVE IntVal(_)
IntVal(s) == IF Len(s) = 0 THEN 0 ELSE 10 * IntVal(Slice(s, 1, Len(s) - 1)) + (IndexIn(s[Len(s)], Digits) - 1)

\* datetime.now().strftime: the clock counts the seconds of one minute of a
\* fixed day
StampCompact(now) ==   \* %Y%m%d_%H%M%S
    <<"2", "0", "2", "5", "0", "1", "0", "1", "_", "0", "0", "0", "0">> \o ZeroPad(DecStr(now), 2)
StampReadable(now) ==  \* %Y-%m-%d %H:%M:%S
    <<"2", "0", "2", "5", "-", "0", "1", "-", "0", "1", " ", "0", "0", ":", "0", "0", ":">>
        \o ZeroPad(DecStr(now), 2)

----------------------------------------------------------------------------
(* get_appropriate_archive_file *)

\* SectionDir keeping every section of a project in one directory
SectionDirShared(project, section) == <<project, <<"s">>>>

SectionDir(project, section) == <<project, section>>

\* f"{section}_{n:03d}.md"
NumberedName(section, n) == section \o <<"_">> \o ZeroPad(DecStr(n), 3) \o MdSuffix

\* int(os.path.basename(latest_file).split('_')[1].split('.')[0]); ok = FALSE
\* when the index or the conversion raises
FileNumber(name) ==
    LET parts == Split(name, "_")
        digits == IF Len(parts) >= 2 THEN Split(parts[2], ".")[1] ELSE <<>>
        ok == Len(parts) >= 2 /\ IntOk(digits)
    IN  [ok |-> ok, val |-> IF ok THEN IntVal(digits) ELSE 0]

\* ResolveArchives with the capacity test one line early: a file one line
\* short of max_file_lines is already rotated away from
ResolveArchivesEarly(files, project, section) ==
    LET dir == SectionDir(project, section)
        archive_files == GlobMd(files, dir)
        first == [file |-> Append(dir, NumberedName(section, 1)), is_new_file |-> TRUE]
    IN  IF archive_files = {} THEN first
        ELSE LET latest_file == LastSorted(archive_files)
                 line_count == LineCount(files[latest_file])
                 num == FileNumber(latest_file[Len(latest_file)])
             IN  IF line_count + 1 >= MaxFileLines
                 THEN IF num.ok
                      THEN [file |-> Append(dir, NumberedName(section, num.val + 1)),
                            is_new_file |-> TRUE]
                      ELSE first
                 ELSE [file |-> latest_file, is_new_file |-> FALSE]

\* ResolveArchives without the capacity test: every call after the first
\* starts the next document
ResolveArchivesAlways(files, project, section) ==
    LET dir == SectionDir(project, section)
        archive_files == GlobMd(files, dir)
        num == FileNumber(LastSorted(archive_files)[Len(dir) + 1])
    IN  IF archive_files = {} \/ ~num.ok
        THEN [file |-> Append(dir, NumberedName(section, 1)), is_new_file |-> TRUE]
        ELSE [file |-> Append(dir, NumberedName(section, num.val + 1)), is_new_file |-> TRUE]

\* archives variant: the answer (file, is_new_file) from the files on disk
ResolveArchives(files, project, section) ==
    LET dir == SectionDir(project, section)
        archive_files == GlobMd(files, dir)
        first == [file |-> Append(dir, NumberedName(section, 1)), is_new_file |-> TRUE]
    IN  IF archive_files = {} THEN first
        ELSE LET latest_file == LastSorted(archive_files)
                 line_count == LineCount(files[latest_file])
                 num == FileNumber(latest_file[Len(latest_file)])
             IN  IF line_count >= MaxFileLines
                 THEN IF num.ok
                      THEN [file |-> Append(dir, NumberedName(section, num.val + 1)),
                            is_new_file |-> TRUE]
                      ELSE first   \* except Exception
                 ELSE [file |-> latest_file, is_new_file |-> FALSE]

\* core variant: the candidates for existing_files[0] after the sort by
\* modification time, newest first (equal times keep the listing order, which
\* the file system decides)
NewestFiles(files, times, dir) ==
    {p \in GlobMd(files, dir) : \A q \in GlobMd(files, dir) : times[q] <= times[p]}

\* f"{project}_{section}_{timestamp}.md"
StampedName(project, section, now) ==
    project \o <<"_">> \o section \o <<"_">> \o StampCompact(now) \o MdSuffix

\* core variant: the possible answers from the files on disk, their
\* modification times and the wall clock
ResolveCore(files, times, now, project, section) ==
    LET dir == SectionDir(project, section)
    IN  IF GlobMd(files, dir) # {}
        THEN {[file |-> p, is_new_file |-> FALSE] : p \in NewestFiles(files, times, dir)}
        ELSE {[file |-> Append(dir, StampedName(project, section, now)), is_new_file |-> TRUE]}

\* the possible answers of get_appropriate_archive_file of variant v
get_appropriate_archive_file(v, files, times, now, project, section) ==
    IF v = "core" THEN ResolveCore(files, times, now, project, section)
    ELSE {ResolveArchives(files, project, section)}

----------------------------------------------------------------------------
(* add_to_archives *)

ArchiveEntry == <<"A", "r", "c", "h", "i", "v", "e", " ", "E", "n", "t", "r", "y", " ">>
Blank2 == <<"\n", "\n">>
Rule == <<"\n", "\n", "-", "-", "-", "\n", "\n">>

\* archives variant: the text appended to the target file
FormatArchives(is_new_file, title, now, sanitized) ==
    LET t == IF title = <<>> THEN ArchiveEntry \o StampReadable(now) ELSE title
    IN  IF is_new_file THEN <<"#", " ">> \o t \o Blank2 \o sanitized
        ELSE Blank2 \o <<"#", "#", " ">> \o t \o Blank2 \o sanitized

\* FormatCore without the existing content: the write replaces the document
FormatCoreOverwrite(is_new_file, project, section, title, existing_content, sanitized) ==
    IF is_new_file
    THEN LET t == IF title # <<>> THEN title
                  ELSE Capitalize(project) \o <<" ">> \o Capitalize(section)
         IN  <<"#", " ">> \o t \o Blank2 \o sanitized
    ELSE IF title # <<>>
         THEN <<"#", "#", " ">> \o title \o Blank2 \o sanitized
         ELSE sanitized

\* core variant: the whole text written to the target file
FormatCore(is_new_file, project, section, title, existing_content, sanitized) ==
    IF is_new_file
    THEN LET t == IF title # <<>> THEN title
                  ELSE Capitalize(project) \o <<" ">> \o Capitalize(section)
         IN  <<"#", " ">> \o t \o Blank2 \o sanitized
    ELSE IF title # <<>>
         THEN existing_content \o Rule \o <<"#", "#", " ">> \o title \o Blank2 \o sanitized
         ELSE existing_content \o Rule \o sanitized

\* os.makedirs(project_dir), os.makedirs(section_dir)
WithSectionDirs(ds, project, section) == ds \cup {<<project>>, <<project, section>>}

\* log_history: the log file is named by the second and the action
LogName(now, action) == <<StampReadable(now), action>>

NoCall == [op |-> "none"]

\* no call is in flight
NoCalls == <<>>

\* archives variant of add_to_archives(project, section, content, title)
AddArchives(project, section, content, title) ==
    /\ variant = "archives"
    /\ \E r \in get_appropriate_archive_file(variant, fs, mtime, clock, project, section) :
        LET sanitized == sanitize_content(variant, content)
            old == IF r.file \in DOMAIN fs THEN fs[r.file] ELSE <<>>
            text == FormatArchives(r.is_new_file, title, clock, sanitized.val)
        IN  /\ dirs' = WithSectionDirs(dirs, project, section)
            /\ fs' = Put(fs, r.file, old \o text)          \* open(archive_file, 'a')
            /\ mtime' = mtime    \* this variant never reads modification times: not tracked
            /\ logs' = logs \cup {LogName(clock, "add_to_archives")}
            /\ last' = [op |-> "add", project |-> project, section |-> section,
                        content |-> content, title |-> title, raised |-> FALSE,
                        file |-> r.file, is_new_file |-> r.is_new_file]

\* core variant of add_to_archives(project, section, content, title)
AddCore(project, section, content, title) ==
    /\ variant = "core"
    /\ \E r \in get_appropriate_archive_file(variant, fs, mtime, clock, project, section) :
        LET sanitized == sanitize_content(variant, content)
            \* get_appropriate_archive_file creates the file it designates
            created == IF r.is_new_file THEN Put(fs, r.file, <<>>) ELSE fs
            stamped == IF r.is_new_file THEN Put(mtime, r.file, clock) ELSE mtime
            text == FormatCore(r.is_new_file, project, section, title,
                               created[r.file], sanitized.val)
        IN  /\ dirs' = WithSectionDirs(dirs, project, section)
            /\ fs' = IF sanitized.ok THEN Put(created, r.file, text) ELSE created
            /\ mtime' = IF sanitized.ok THEN Put(mtime, r.file, clock) ELSE stamped
            /\ logs' = logs
            /\ last' = [op |-> "add", project |-> project, section |-> section,
                        content |-> content, title |-> title, raised |-> ~sanitized.ok,
                        file |-> r.file, is_new_file |-> r.is_new_file]

Add(limit, bodies, titles) ==
    /\ nadds < limit
    /\ nadds' = nadds + 1
    /\ \E project \in Projects, section \in Sections, content \in bodies, title \in titles :
        \/ AddArchives(project, section, content, title)
        \/ AddCore(project, section, content, title)
    /\ UNCHANGED <<variant, clock, san, rules, upserts, calls>>

\* the wall clock advances
Tick ==
    /\ clock < MaxClock
    /\ clock' = clock + 1
    /\ UNCHANGED <<variant, fs, dirs, mtime, nadds, logs, last, san, rules, upserts, calls>>

----------------------------------------------------------------------------
(* Tokenizer and scoring (core variant) *)

\* TOKEN_PATTERN.findall(text), lower-cased: the maximal runs of \w characters
RECURSIVE TokensFrom(_, _)
TokensFrom(text, i) ==
    IF i > Len(text) THEN <<>>
    ELSE LET n == RunLen(text, i, IsWordChar)
         IN  IF n = 0 THEN TokensFrom(text, i + 1)
             ELSE <<Lower(Slice(text, i, i + n - 1))>> \o TokensFrom(text, i + n)

tokenize(text) == TokensFrom(text, 1)

\* the elements of a set of numbers in ascending order
RECURSIVE Ascending(_)
Ascending(S) ==
    IF S = {} THEN <<>>
    ELSE LET m == CHOOSE x \in S : \A y \in S : x <= y
         IN  <<m>> \o Ascending(S \ {m})

\* WordHits without the test of the neighbouring characters
WordHitsAnywhere(token, content_lower) ==
    {i \in 1..Len(content_lower) : StartsAt(content_lower, i, token)}

\* the positions (1-based) where token occurs in content_lower as a whole
\* word: the character before and the character after are not alphanumeric
WordHits(token, content_lower) ==
    {i \in 1..Len(content_lower) :
        /\ StartsAt(content_lower, i, token)
        /\ (i = 1 \/ ~IsAlnum(content_lower[i - 1]))
        /\ (i + Len(token) > Len(content_lower) \/ ~IsAlnum(content_lower[i + Len(token)]))}

\* PositionsOf counting a token that the query repeats once only
RECURSIVE PositionsOfOnce(_, _)
PositionsOfOnce(query_tokens, content_lower) ==
    IF Len(query_tokens) = 0 THEN <<>>
    ELSE (IF query_tokens[1] \in Range(Tail(query_tokens)) THEN <<>>
          ELSE Ascending(WordHits(query_tokens[1], content_lower)))
            \o PositionsOfOnce(Tail(query_tokens), content_lower)

RECURSIVE PositionsOf(_, _)
PositionsOf(query_tokens, content_lower) ==
    IF Len(query_tokens) = 0 THEN <<>>
    ELSE Ascending(WordHits(query_tokens[1], content_lower))
            \o PositionsOf(Tail(query_tokens), content_lower)

\* score_document(query_tokens, content) -> (score, positions); one point and
\* one position per whole-word occurrence, token by token
score_document(query_tokens, content) ==
    LET positions == PositionsOf(query_tokens, Lower(content))
    IN  [score |-> Len(positions), positions |-> positions]

----------------------------------------------------------------------------
(* search_archives *)

\* the characters of context kept before and after a match
SnippetBefore == 100
SnippetAfterExact == 100
SnippetAfterToken == 200
SnippetFallback == 300
SnippetSection == 500

Max2(a, b) == IF a >= b THEN a ELSE b
Min2(a, b) == IF a <= b THEN a ELSE b

\* the files of a listing that lie at root/proj/<section>/<name>.md
RECURSIVE SectionFiles(_, _, _)
SectionFiles(order, ds, proj) ==
    IF Len(order) = 0 THEN <<>>
    ELSE LET p == order[1]
             rest == SectionFiles(Tail(order), ds, proj)
         IN  IF Len(p) = 3 /\ p[1] = proj /\ <<proj, p[2]>> \in ds /\ EndsWith(p[3], MdSuffix)
             THEN <<p>> \o rest ELSE rest

\* the files of a listing that lie at root/proj/<name>.md
RECURSIVE ProjectFiles(_, _)
ProjectFiles(order, proj) ==
    IF Len(order) = 0 THEN <<>>
    ELSE LET p == order[1]
             rest == ProjectFiles(Tail(order), proj)
         IN  IF Len(p) = 2 /\ p[1] = proj /\ EndsWith(p[2], MdSuffix)
             THEN <<p>> \o rest ELSE rest

\* projects = [project] if project else the configured list
SearchProjects(project) == IF project # <<>> THEN <<project>> ELSE ConfiguredProjects

\* core variant: the files the nested glob loops visit, in visiting order.
\* order lists the files on disk in directory-listing order.
RECURSIVE ScanCore(_, _, _)
ScanCore(projects, order, ds) ==
    IF Len(projects) = 0 THEN <<>>
    ELSE (IF <<projects[1]>> \in ds THEN SectionFiles(order, ds, projects[1]) ELSE <<>>)
            \o ScanCore(Tail(projects), order, ds)

\* archives variant: glob(os.path.join(project_dir, "*.md")) per project
RECURSIVE ScanArchives(_, _, _)
ScanArchives(projects, order, ds) ==
    IF Len(projects) = 0 THEN <<>>
    ELSE (IF <<projects[1]>> \in ds THEN ProjectFiles(order, projects[1]) ELSE <<>>)
            \o ScanArchives(Tail(projects), order, ds)

\* title from the first line, or the file name when it is no header
TitleOf(content, path) ==
    LET first_line == Split(content, "\n")[1]
    IN  IF StartsWith(first_line, <<"#">>) THEN Strip(LStripChar(first_line, "#"))
        ELSE path[Len(path)]

\* ExactSnippet that forgets the length of the query when it places the end
ExactSnippetShort(content, query) ==
    LET query_pos == Find(Lower(content), Lower(query), 1) - 1
        start == Max2(0, query_pos - SnippetBefore)
        end == Min2(Len(content), query_pos + SnippetAfterExact)
    IN  Slice(content, start + 1, end)

\* content[start:end] around the first occurrence of the query
ExactSnippet(content, query) ==
    LET query_pos == Find(Lower(content), Lower(query), 1) - 1
        start == Max2(0, query_pos - SnippetBefore)
        end == Min2(Len(content), query_pos + Len(query) + SnippetAfterExact)
    IN  Slice(content, start + 1, end)

\* _exact_match_search over the visited files
RECURSIVE ExactResults(_, _, _)
ExactResults(paths, files, query) ==
    IF Len(paths) = 0 THEN <<>>
    ELSE LET p == paths[1]
             content == files[p]
             rest == ExactResults(Tail(paths), files, query)
         IN  IF Contains(Lower(content), Lower(query))
             THEN <<[project |-> p[1], section |-> p[2], file |-> p,
                     title |-> TitleOf(content, p),
                     snippet |-> ExactSnippet(content, query)]>> \o rest
             ELSE rest

TokenSnippet(content, positions) ==
    IF Len(positions) > 0
    THEN LET match_pos == positions[1] - 1
         IN  Slice(content, Max2(0, match_pos - SnippetBefore) + 1,
                   Min2(Len(content), match_pos + SnippetAfterToken))
    ELSE Slice(content, 1, Min2(Len(content), SnippetFallback))

\* the number of distinct query tokens that occur anywhere in the content
MatchedTokens(query_tokens, content) ==
    Cardinality({tok \in Range(query_tokens) : Contains(Lower(content), Lower(tok))})

RECURSIVE TokenResults(_, _, _)
TokenResults(paths, files, query_tokens) ==
    IF Len(paths) = 0 THEN <<>>
    ELSE LET p == paths[1]
             content == files[p]
             sc == score_document(query_tokens, content)
             rest == TokenResults(Tail(paths), files, query_tokens)
         IN  IF sc.score > 0
             THEN <<[project |-> p[1], section |-> p[2], file |-> p,
                     title |-> TitleOf(content, p),
                     snippet |-> TokenSnippet(content, sc.positions),
                     score |-> sc.score,
                     matched_tokens |-> MatchedTokens(query_tokens, content)]>> \o rest
             ELSE rest

\* KeyLess comparing the scores only
KeyLessScore(a, b) == a.score < b.score

\* the sort key (score, matched_tokens) compared as tuples
KeyLess(a, b) ==
    \/ a.score < b.score
    \/ a.score = b.score /\ a.matched_tokens < b.matched_tokens

\* list.sort(key=..., reverse=True): descending and stable
RECURSIVE InsertDesc(_, _)
InsertDesc(sorted, r) ==
    IF Len(sorted) = 0 THEN <<r>>
    ELSE IF KeyLess(sorted[1], r) THEN <<r>> \o sorted
    ELSE <<sorted[1]>> \o InsertDesc(Tail(sorted), r)

RECURSIVE SortDesc(_, _)
SortDesc(results, acc) ==
    IF Len(results) = 0 THEN acc
    ELSE SortDesc(Tail(results), InsertDesc(acc, results[1]))

\* SearchCore running both phases whatever the first one finds
SearchCoreBothPhases(files, ds, order, query, project) ==
    LET paths == ScanCore(SearchProjects(project), order, ds)
        exact_results == ExactResults(paths, files, query)
        query_tokens == tokenize(query)
    IN  IF Len(query_tokens) = 0 THEN exact_results
        ELSE exact_results \o SortDesc(TokenResults(paths, files, query_tokens), <<>>)

\* core variant of search_archives(query, project)
SearchCore(files, ds, order, query, project) ==
    LET paths == ScanCore(SearchProjects(project), order, ds)
        exact_results == ExactResults(paths, files, query)
        query_tokens == tokenize(query)
    IN  IF Len(exact_results) > 0 THEN exact_results
        ELSE IF Len(query_tokens) = 0 THEN <<>>
        ELSE SortDesc(TokenResults(paths, files, query_tokens), <<>>)

\* re.search(query, text, re.IGNORECASE) for a query that compiles and holds
\* no character with a meaning in patterns
RegexSearch(query, text) == Contains(Lower(text), Lower(query))

\* re.split(r'##\s+', content)
RECURSIVE SplitSections(_, _, _)
SplitSections(content, i, cur) ==
    IF i > Len(content) THEN <<cur>>
    ELSE IF StartsAt(content, i, <<"#", "#">>) /\ RunLen(content, i + 2, IsSpace) >= 1
         THEN <<cur>> \o SplitSections(content, i + 2 + RunLen(content, i + 2, IsSpace), <<>>)
    ELSE SplitSections(content, i + 1, Append(cur, content[i]))

Ellipsis == <<".", ".", ".">>

\* the results one file contributes: one per matching section after the first
RECURSIVE SectionResults(_, _, _)
SectionResults(sections, p, query) ==
    IF Len(sections) = 0 THEN <<>>
    ELSE LET section == sections[1]
             rest == SectionResults(Tail(sections), p, query)
         IN  IF RegexSearch(query, section)
             THEN <<[file |-> p, project |-> p[1],
                     title |-> Strip(Split(section, "\n")[1]),
                     snippet |-> IF Len(section) > SnippetSection
                                 THEN Slice(section, 1, SnippetSection) \o Ellipsis
                                 ELSE section]>> \o rest
             ELSE rest

RECURSIVE ArchivesResults(_, _, _)
ArchivesResults(paths, files, query) ==
    IF Len(paths) = 0 THEN <<>>
    ELSE LET p == paths[1]
             content == files[p]
             rest == ArchivesResults(Tail(paths), files, query)
         IN  IF RegexSearch(query, content)
             THEN SectionResults(Tail(SplitSections(content, 1, <<>>)), p, query) \o rest
             ELSE rest

\* archives variant of search_archives(query, project)
SearchArchives(files, ds, order, query, project) ==
    ArchivesResults(ScanArchives(SearchProjects(project), order, ds), files, query)

search_archives(v, files, ds, order, query, project) ==
    IF v = "core" THEN SearchCore(files, ds, order, query, project)
    ELSE SearchArchives(files, ds, order, query, project)

\* the orders in which a directory listing may answer the files of a set
Listings(S) ==
    {o \in [1..Cardinality(S) -> S] : \A p \in S : \E i \in 1..Cardinality(S) : o[i] = p}

\* queries and project filters a caller passes; the empty filter stands for
\* an absent one (the code tests  if project)
Queries == {<<"a", " ", "b">>, <<"B", " ", "A">>, <<"b">>, <<"z">>, <<"(">>, <<>>}

\* re.search(query, ...) compiles the query as a pattern: an opening
\* parenthesis that nothing closes is no pattern, and re.error is raised (of
\* the characters with a meaning in patterns the queries drawn hold only this one)
RegexRaises(query) ==
    \E i \in 1..Len(query) :
        query[i] = "(" /\ \A j \in (i + 1)..Len(query) : query[j] # ")"

\* search_raises compiling the query before it looks for files
SearchRaisesEager(v, ds, order, query, project) == v # "core" /\ RegexRaises(query)

\* whether search_archives raises: the core variant tests substrings and
\* never does; the archives variant hands the query to re.search for the
\* first file it reads
search_raises(v, ds, order, query, project) ==
    /\ v # "core"
    /\ Len(ScanArchives(SearchProjects(project), order, ds)) > 0
    /\ RegexRaises(query)

\* what a call leaves in  last : no results when it raised
SearchAnswer(v, files, ds, order, query, project) ==
    [op |-> "search", query |-> query, project |-> project,
     raised |-> search_raises(v, ds, order, query, project),
     results |-> IF search_raises(v, ds, order, query, project) THEN <<>>
                 ELSE search_archives(v, files, ds, order, query, project)]
Filters == {<<>>} \cup Projects

\* Search making the directory of the project it is asked to look in
SearchMakingDirs ==
    /\ \E query \in Queries, project \in Filters, order \in Listings(DOMAIN fs) :
        /\ last' = SearchAnswer(variant, fs, dirs, order, query, project)
        /\ dirs' = IF project # <<>> THEN dirs \cup {<<project>>} ELSE dirs
    /\ UNCHANGED <<variant, fs, mtime, clock, nadds, logs, san, rules, upserts, calls>>

Search ==
    /\ \E query \in Queries, project \in Filters, order \in Listings(DOMAIN fs) :
        last' = SearchAnswer(variant, fs, dirs, order, query, project)
    /\ UNCHANGED <<variant, fs, dirs, mtime, clock, nadds, logs, san, rules, upserts, calls>>

----------------------------------------------------------------------------
(* Custom rules *)

\* archives variant: the one rules file, custom_rules_dir/reko-rules.md
RulesFile == <<"r", "e", "k", "o", "-", "r", "u", "l", "e", "s", ".", "m", "d">>

\* the header of a rule section and the section update_custom_rules writes
RuleHeader == <<"#", "#", " ">>
HeaderOf(rule_name) == RuleHeader \o rule_name
SectionOf(rule_name, content) == HeaderOf(rule_name) \o Blank2 \o content \o Blank2

\* rule_section_pattern  ## <name>(.*?)(?:## |$)  with re.DOTALL: the lazy
\* group ends at the first position where "## " begins or where $ holds,
\* which is the end of the text or just before a newline that ends the text
RuleEnds(s, j) ==
    \/ StartsAt(s, j, RuleHeader)
    \/ j = Len(s) + 1
    \/ j = Len(s) /\ s[j] = "\n"

RuleStop(s, from) ==
    CHOOSE j \in from..(Len(s) + 1) :
        RuleEnds(s, j) /\ \A k \in from..(j - 1) : ~RuleEnds(s, k)

\* the length of the match at i: the alternative "## " is part of the match
RuleLen(s, i, rule_name) ==
    IF ~StartsAt(s, i, HeaderOf(rule_name)) THEN 0
    ELSE RuleStop(s, i + Len(HeaderOf(rule_name))) - i
            + (IF StartsAt(s, RuleStop(s, i + Len(HeaderOf(rule_name))), RuleHeader)
               THEN Len(RuleHeader) ELSE 0)

\* pattern.sub reads its replacement as a template: backslash-n stands for a
\* newline (the names and contents drawn hold no other backslash)
ExpandTemplate(t) == Replace(t, <<"\\", "n">>, <<"\n">>)

\* new_content of the archives variant (lines 397-408)
UpdateRuleText(existing_content, rule_name, sanitized_content) ==
    IF \E i \in 1..Len(existing_content) : RuleLen(existing_content, i, rule_name) > 0
    THEN SubWith(existing_content, 1,
                 [i \in 1..Len(existing_content) |-> RuleLen(existing_content, i, rule_name)],
                 [i \in 1..Len(existing_content) |->
                     ExpandTemplate(SectionOf(rule_name, sanitized_content))])
    ELSE (IF existing_content # <<>> /\ ~EndsWith(existing_content, Blank2)
          THEN existing_content \o Blank2 ELSE existing_content)
            \o SectionOf(rule_name, sanitized_content)

ReadRules(files, name) == IF name \in DOMAIN files THEN files[name] ELSE <<>>

\* archives variant of update_custom_rules(rule_content, rule_name)
UpsertArchives(rule_name, rule_content) ==
    /\ variant = "archives"
    /\ rules' = Put(rules, RulesFile,
                    UpdateRuleText(ReadRules(rules, RulesFile), rule_name,
                                   sanitize_content(variant, rule_content).val))
    /\ logs' = logs \cup {LogName(clock, "update_custom_rules")}
    /\ last' = [op |-> "upsert", name |-> rule_name, content |-> rule_content,
                raised |-> FALSE, file |-> RulesFile]

\* core variant: one file per rule in the repository root, the raw content
RuleFileName(rule_name) ==
    IF EndsWith(rule_name, MdSuffix) THEN rule_name ELSE rule_name \o MdSuffix

UpsertCore(rule_name, rule_content) ==
    /\ variant = "core"
    /\ rules' = Put(rules, RuleFileName(rule_name), rule_content)
    /\ logs' = logs
    /\ last' = [op |-> "upsert", name |-> rule_name, content |-> rule_content,
                raised |-> FALSE, file |-> RuleFileName(rule_name)]

\* update_custom_rules called with arguments from the given sets
UpsertRule(limit, names, contents) ==
    /\ Len(upserts) < limit
    /\ \E rule_name \in names, rule_content \in contents :
        /\ \/ UpsertArchives(rule_name, rule_content)
           \/ UpsertCore(rule_name, rule_content)
        /\ upserts' = Append(upserts, <<rule_name, rule_content>>)
    /\ UNCHANGED <<variant, fs, dirs, mtime, clock, nadds, san, calls>>

\* re.split(r'(?=## )', content): the text cut before every "## "
RECURSIVE RulePieces(_, _)
RulePieces(s, i) ==
    IF Find(s, RuleHeader, i + 1) = 0 THEN <<Slice(s, i, Len(s))>>
    ELSE <<Slice(s, i, Find(s, RuleHeader, i + 1) - 1)>>
            \o RulePieces(s, Find(s, RuleHeader, i + 1))

SplitRules(s) ==
    IF StartsWith(s, RuleHeader) THEN << <<>> >> \o RulePieces(s, 1) ELSE RulePieces(s, 1)

General == <<"g", "e", "n", "e", "r", "a", "l">>

\* re.match(r'## (.*?)\n(.*)', section, re.DOTALL): a header line and the
\* rest; a section that is no such thing is reported under the name general
ParseRule(section, file) ==
    IF StartsWith(section, RuleHeader) /\ Find(section, <<"\n">>, Len(RuleHeader) + 1) # 0
    THEN [name |-> Strip(Slice(section, Len(RuleHeader) + 1,
                               Find(section, <<"\n">>, Len(RuleHeader) + 1) - 1)),
          content |-> Strip(Slice(section, Find(section, <<"\n">>, Len(RuleHeader) + 1) + 1,
                                  Len(section))),
          file |-> file]
    ELSE [name |-> General, content |-> Strip(section), file |-> file]

RECURSIVE RulesFrom(_, _)
RulesFrom(rule_sections, file) ==
    IF Len(rule_sections) = 0 THEN <<>>
    ELSE (IF Strip(rule_sections[1]) = <<>> THEN <<>>
          ELSE <<ParseRule(rule_sections[1], file)>>)
            \o RulesFrom(Tail(rule_sections), file)

\* archives variant of get_custom_rules()
RulesArchives(files) ==
    IF RulesFile \notin DOMAIN files THEN <<>>
    ELSE RulesFrom(SplitRules(files[RulesFile]), RulesFile)

\* core variant: the names of the files in the repository root that are
\* taken for rules
LikelyRuleNames == {<<"c", "u", "s", "t", "o", "m", "-", "r", "u", "l", "e", "s">>,
                    <<"a", "i", "_", "a", "r", "c", "h", "i", "v", "e", "s", "_", "i", "n", "t", "e", "g", "r", "a", "t", "i", "o", "n">>,
                    <<"a", "r", "c", "h", "i", "v", "e", "s", "_", "i", "n", "t", "e", "g", "r", "a", "t", "i", "o", "n">>,
                    <<"e", "x", "p", "l", "i", "c", "i", "t", "_", "p", "e", "r", "m", "i", "s", "s", "i", "o", "n">>}

FileStem(name) == IF EndsWith(name, MdSuffix) THEN Slice(name, 1, Len(name) - Len(MdSuffix)) ELSE name

\* core variant of get_custom_rules(): one rule per file of the repository
\* root with such a name, the whole file its content
RECURSIVE RulesCore(_, _)
RulesCore(order, files) ==
    IF Len(order) = 0 THEN <<>>
    ELSE (IF Lower(FileStem(order[1])) \in LikelyRuleNames /\ EndsWith(order[1], MdSuffix)
          THEN <<[name |-> FileStem(order[1]), content |-> files[order[1]], file |-> order[1]]>>
          ELSE <<>>)
            \o RulesCore(Tail(order), files)

get_custom_rules(v, files, order) ==
    IF v = "core" THEN RulesCore(order, files) ELSE RulesArchives(files)

\* get_custom_rules called
ListRules ==
    /\ \E order \in Listings(DOMAIN rules) :
        last' = [op |-> "rules", raised |-> FALSE,
                 results |-> get_custom_rules(variant, rules, order)]
    /\ UNCHANGED <<variant, fs, dirs, mtime, clock, nadds, logs, san, rules, upserts, calls>>

\* rule names and contents a caller passes: a name, a name it is a prefix
\* of, and a name the core variant takes for a rule file
RuleNames == {<<"x">>, <<"x", "y">>, <<"c", "u", "s", "t", "o", "m", "-", "r", "u", "l", "e", "s">>}
RuleContents == {<<"v">>, <<"w">>, <<"v", "\\", "n", "w">>}

----------------------------------------------------------------------------
(* The store: a process that imported one of the two modules and adds entries *)

NoSan == [pc |-> "idle"]

Init ==
    /\ variant \in {"archives", "core"}
    /\ fs = <<>>
    /\ dirs = {}
    /\ mtime = <<>>
    /\ clock = 0
    /\ nadds = 0
    /\ logs = {}
    /\ last = NoCall
    /\ rules = <<>>
    /\ upserts = <<>>
    /\ calls = NoCalls
    /\ san = NoSan

AddEntry == Add(MaxAdds, StoreBodies, Titles)

Next == AddEntry \/ Tick

Spec == Init /\ [][Next]_vars

----------------------------------------------------------------------------
(* The store with retrieval: entries are added and the archives searched.   *)
(* All calls fall within one second of the wall clock.                      *)

\* add_to_archives is called at most MaxSearchAdds times before and between
\* the searches
MaxSearchAdds == 2

AddSearchable == Add(MaxSearchAdds, Bodies, {<<"T">>})

NextSearch == AddSearchable \/ Search

SpecSearch == Init /\ [][NextSearch]_vars

----------------------------------------------------------------------------
(* The sanitizer applied to an input and then to its own result *)

\* inputs are concatenations of at most MaxChunks of these pieces
MaxChunks == 4
SanChunks ==
    << <<"[">>, <<"[", "1", "m">>, <<"1", "m">>, <<"\n">>, <<"#">>, <<"a">>,
       <<"\\", "n">>, <<"\"", "\"", "\"">>, <<",">> >>

RECURSIVE ConcatChunks(_)
ConcatChunks(ix) == IF Len(ix) = 0 THEN <<>> ELSE SanChunks[ix[1]] \o ConcatChunks(Tail(ix))

SanInputs ==
    {ConcatChunks(ix) : ix \in UNION {[1..k -> 1..Len(SanChunks)] : k \in 0..MaxChunks}}

InitSan ==
    /\ variant \in {"archives", "core"}
    /\ fs = <<>>
    /\ dirs = {}
    /\ mtime = <<>>
    /\ clock = 0
    /\ nadds = 0
    /\ logs = {}
    /\ last = NoCall
    /\ rules = <<>>
    /\ upserts = <<>>
    /\ calls = NoCalls
    /\ san \in {[pc |-> "start", input |-> x] : x \in SanInputs}

\* y = sanitize_content(x)
SanitizeOnce ==
    /\ san.pc = "start"
    /\ LET r == sanitize_content(variant, san.input)
       IN  san' = IF r.ok THEN [pc |-> "once", input |-> san.input, out1 |-> r.val]
                  ELSE [pc |-> "raised", input |-> san.input]
    /\ UNCHANGED <<variant, fs, dirs, mtime, clock, nadds, logs, last, rules, upserts, calls>>

\* z = sanitize_content(y)
SanitizeAgain ==
    /\ san.pc = "once"
    /\ LET r == sanitize_content(variant, san.out1)
       IN  san' = IF r.ok THEN [pc |-> "twice", input |-> san.input, out1 |-> san.out1,
                                out2 |-> r.val]
                  ELSE [pc |-> "raised", input |-> san.out1]
    /\ UNCHANGED <<variant, fs, dirs, mtime, clock, nadds, logs, last, rules, upserts, calls>>

NextSan == SanitizeOnce \/ SanitizeAgain

SpecSan == InitSan /\ [][NextSan]_vars

----------------------------------------------------------------------------
(* score_document applied to token lists and texts of bounded length *)

MaxQueryTokens == 2
MaxTextChunks == 3
ScoreTokens == {<<"a">>, <<"a", "b">>, <<"a", "_", "a">>, <<"A">>}
TextChunks == <<<<"a">>, <<" ">>, <<"b">>, <<"_", "a">>, <<"A">>>>
TokenLists == UNION {[1..n -> ScoreTokens] : n \in 0..MaxQueryTokens}
RECURSIVE ScoreText(_)
ScoreText(ix) == IF Len(ix) = 0 THEN <<>> ELSE TextChunks[ix[1]] \o ScoreText(Tail(ix))
ScoreTexts ==
    {ScoreText(ix) : ix \in UNION {[1..n -> 1..Len(TextChunks)] : n \in 0..MaxTextChunks}}

InitScore ==
    /\ variant = "core"
    /\ fs = <<>>
    /\ dirs = {}
    /\ mtime = <<>>
    /\ clock = 0
    /\ nadds = 0
    /\ logs = {}
    /\ last = NoCall
    /\ rules = <<>>
    /\ upserts = <<>>
    /\ calls = NoCalls
    /\ san \in {[pc |-> "start", tokens |-> t, text |-> x] : t \in TokenLists, x \in ScoreTexts}

\* (score, positions) = score_document(tokens, text)
ScoreOnce ==
    /\ san.pc = "start"
    /\ san' = [pc |-> "scored", tokens |-> san.tokens, text |-> san.text,
               score |-> score_document(san.tokens, san.text).score,
               positions |-> score_document(san.tokens, san.text).positions]
    /\ UNCHANGED <<variant, fs, dirs, mtime, clock, nadds, logs, last, rules, upserts, calls>>

NextScore == ScoreOnce
SpecScore == InitScore /\ [][NextScore]_vars

----------------------------------------------------------------------------
(* Stores of chosen shape: the same calls with the arguments drawn from given
   sets *)

\* add_to_archives called with arguments from the given sets
AddTo(limit, projects, sections, bodies, titles) ==
    /\ nadds < limit
    /\ nadds' = nadds + 1
    /\ \E project \in projects, section \in sections, content \in bodies, title \in titles :
        \/ AddArchives(project, section, content, title)
        \/ AddCore(project, section, content, title)
    /\ UNCHANGED <<variant, clock, san, rules, upserts, calls>>

\* search_archives called with arguments from the given sets
SearchFor(queries, filters) ==
    /\ \E query \in queries, project \in filters, order \in Listings(DOMAIN fs) :
        last' = SearchAnswer(variant, fs, dirs, order, query, project)
    /\ UNCHANGED <<variant, fs, dirs, mtime, clock, nadds, logs, san, rules, upserts, calls>>

\* Entries longer than the snippet window: a run of filler, the word "ab", a
\* run of filler.  The filler lengths put the word just inside, at and just
\* outside the window on either side (the document header "# T" and the blank
\* line before the body take 5 characters).
MaxLongAdds == 1
Filler(n) == [i \in 1..n |-> "x"]
HeaderChars == Len(<<"#", " ", "T">> \o Blank2)
FillBefore == {0, SnippetBefore - HeaderChars - 1, SnippetBefore - HeaderChars,
               SnippetBefore - HeaderChars + 1}
FillAfter == {0, SnippetAfterExact - 1, SnippetAfterExact, SnippetAfterExact + 1}
LongBodies == {Filler(a) \o <<"a", "b">> \o Filler(b) : a \in FillBefore, b \in FillAfter}
LongQueries == {<<"a", "b">>, <<"A", "B">>, <<"b">>}

AddLong == AddTo(MaxLongAdds, {<<"f", "e">>}, {<<"s">>}, LongBodies, {<<"T">>})
SearchLong == SearchFor(LongQueries, {<<>>})
NextLong == AddLong \/ SearchLong
SpecLong == Init /\ [][NextLong]_vars

\* Entries for the token-overlap phase: no document holds a whole query of
\* TokenQueries, and the words "a" and "z" stand alone, doubled, joined by a
\* hyphen, or inside the longer word "ab".
MaxTokenAdds == 2
TokenBodies == {<<"a", " ", "a">>, <<"z">>, <<"a", "b">>, <<"a", "-", "z">>}
TokenQueries == {<<"a", " ", "z">>, <<"Z", " ", " ", "a">>, <<"b", " ", "z">>}

AddTokens == AddTo(MaxTokenAdds, {<<"f", "e">>}, Sections, TokenBodies, {<<"T">>})
SearchTokens == SearchFor(TokenQueries, {<<>>, <<"f", "e">>})
NextTokens == AddTokens \/ SearchTokens
SpecTokens == Init /\ [][NextTokens]_vars

\* The rule store, starting without a rules file
MaxUpserts == 3
Upsert == UpsertRule(MaxUpserts, RuleNames, RuleContents)
NextRules == Upsert \/ ListRules
SpecRules == Init /\ [][NextRules]_vars

\* The rule store, starting from a rules file written by hand: text before
\* the first header, headers with and without a line end
MaxFileUpserts == 1
WrittenRules ==
    {<<"i", "n", "t", "r", "o", "\n", "\n", "#", "#", " ", "x", "\n", "\n", "v", "\n", "\n">>,
     <<"i", "n", "t", "r", "o", "\n", "#", "#", " ", "x", "\n", "v", "\n", "#", "#", " ", "x", "y", "\n", "w">>,
     <<"#", "#", " ", "x", "\n", "\n", "v", "\n", "\n">>,
     <<"i", "n", "t", "r", "o", "\n", "#", "#", " ", "x">>}
WrittenName == IF variant = "core" THEN RuleFileName(<<"c", "u", "s", "t", "o", "m", "-", "r", "u", "l", "e", "s">>) ELSE RulesFile

InitWritten ==
    /\ variant \in {"archives", "core"}
    /\ fs = <<>>
    /\ dirs = {}
    /\ mtime = <<>>
    /\ clock = 0
    /\ nadds = 0
    /\ logs = {}
    /\ last = NoCall
    /\ \E doc \in WrittenRules : rules = Put(<<>>, WrittenName, doc)
    /\ upserts = <<>>
    /\ calls = NoCalls
    /\ san = NoSan

UpsertWritten == UpsertRule(MaxFileUpserts, RuleNames, RuleContents)
NextWritten == UpsertWritten \/ ListRules
SpecWritten == InitWritten /\ [][NextWritten]_vars

----------------------------------------------------------------------------
(* File system faults: open(), read() or write() raising OSError in the     *)
(* middle of a call.  A write that raises has put some part of its text on  *)
(* disk; which part is up to the file system.                               *)

\* what f.write(text) that raises can have written: any proper prefix
Written(text) == {Slice(text, 1, k) : k \in 0..(Len(text) - 1)}

\* archives variant of add_to_archives: f.write raises on the file opened
\* with 'a'; log_history is not reached
AddArchivesWriteFault(project, section, content, title) ==
    /\ variant = "archives"
    /\ \E r \in get_appropriate_archive_file(variant, fs, mtime, clock, project, section) :
        \E part \in Written(FormatArchives(r.is_new_file, title, clock,
                                           sanitize_content(variant, content).val)) :
            /\ dirs' = WithSectionDirs(dirs, project, section)
            /\ fs' = Put(fs, r.file, (IF r.file \in DOMAIN fs THEN fs[r.file] ELSE <<>>) \o part)
            /\ mtime' = mtime
            /\ logs' = logs
            /\ last' = [op |-> "add", project |-> project, section |-> section,
                        content |-> content, title |-> title, raised |-> TRUE,
                        file |-> r.file, is_new_file |-> r.is_new_file, fault |-> "write"]

\* the files after get_appropriate_archive_file of the core variant, which
\* creates the file it designates
CreatedCore(files, r) == IF r.is_new_file THEN Put(files, r.file, <<>>) ELSE files

\* core variant of add_to_archives: f.write raises on the file opened with
\* 'w', which open() has emptied
AddCoreWriteFault(project, section, content, title) ==
    /\ variant = "core"
    /\ sanitize_content(variant, content).ok
    /\ \E r \in get_appropriate_archive_file(variant, fs, mtime, clock, project, section) :
        \E part \in Written(FormatCore(r.is_new_file, project, section, title,
                                       CreatedCore(fs, r)[r.file],
                                       sanitize_content(variant, content).val)) :
            /\ dirs' = WithSectionDirs(dirs, project, section)
            /\ fs' = Put(fs, r.file, part)
            /\ mtime' = Put(mtime, r.file, clock)
            /\ logs' = logs
            /\ last' = [op |-> "add", project |-> project, section |-> section,
                        content |-> content, title |-> title, raised |-> TRUE,
                        file |-> r.file, is_new_file |-> r.is_new_file, fault |-> "write"]

\* archives variant of add_to_archives: reading the latest file raises in
\* get_appropriate_archive_file, whose except clause answers the first file
\* name of the section as a new file; the call goes on as usual
AddArchivesReadFault(project, section, content, title) ==
    /\ variant = "archives"
    /\ GlobMd(fs, SectionDir(project, section)) # {}
    /\ dirs' = WithSectionDirs(dirs, project, section)
    /\ fs' = Put(fs, Append(SectionDir(project, section), NumberedName(section, 1)),
                 (IF Append(SectionDir(project, section), NumberedName(section, 1)) \in DOMAIN fs
                  THEN fs[Append(SectionDir(project, section), NumberedName(section, 1))]
                  ELSE <<>>)
                    \o FormatArchives(TRUE, title, clock, sanitize_content(variant, content).val))
    /\ mtime' = mtime
    /\ logs' = logs \cup {LogName(clock, "add_to_archives")}
    /\ last' = [op |-> "add", project |-> project, section |-> section,
                content |-> content, title |-> title, raised |-> FALSE,
                file |-> Append(SectionDir(project, section), NumberedName(section, 1)),
                is_new_file |-> TRUE, fault |-> "read"]

\* core variant of add_to_archives: reading the existing content raises
AddCoreReadFault(project, section, content, title) ==
    /\ variant = "core"
    /\ \E r \in get_appropriate_archive_file(variant, fs, mtime, clock, project, section) :
        /\ ~r.is_new_file
        /\ dirs' = WithSectionDirs(dirs, project, section)
        /\ fs' = fs
        /\ mtime' = mtime
        /\ logs' = logs
        /\ last' = [op |-> "add", project |-> project, section |-> section,
                    content |-> content, title |-> title, raised |-> TRUE,
                    file |-> r.file, is_new_file |-> FALSE, fault |-> "read"]

\* add_to_archives called with arguments from the given sets, the file
\* system failing once during the call
AddFault(limit, projects, sections, bodies, titles) ==
    /\ nadds < limit
    /\ nadds' = nadds + 1
    /\ \E project \in projects, section \in sections, content \in bodies, title \in titles :
        \/ AddArchivesWriteFault(project, section, content, title)
        \/ AddCoreWriteFault(project, section, content, title)
        \/ AddArchivesReadFault(project, section, content, title)
        \/ AddCoreReadFault(project, section, content, title)
    /\ UNCHANGED <<variant, clock, san, rules, upserts, calls>>

\* archives variant of update_custom_rules: f.write raises on the rules file
\* opened with 'w'; log_history is not reached
UpsertArchivesWriteFault(rule_name, rule_content) ==
    /\ variant = "archives"
    /\ \E part \in Written(UpdateRuleText(ReadRules(rules, RulesFile), rule_name,
                                          sanitize_content(variant, rule_content).val)) :
        rules' = Put(rules, RulesFile, part)
    /\ last' = [op |-> "upsert", name |-> rule_name, content |-> rule_content,
                raised |-> TRUE, file |-> RulesFile, fault |-> "write"]

\* core variant of update_custom_rules: f.write raises on the rule file
UpsertCoreWriteFault(rule_name, rule_content) ==
    /\ variant = "core"
    /\ \E part \in Written(rule_content) :
        rules' = Put(rules, RuleFileName(rule_name), part)
    /\ last' = [op |-> "upsert", name |-> rule_name, content |-> rule_content,
                raised |-> TRUE, file |-> RuleFileName(rule_name), fault |-> "write"]

\* update_custom_rules called with arguments from the given sets, the write
\* failing
UpsertFault(limit, names, contents) ==
    /\ Len(upserts) < limit
    /\ \E rule_name \in names, rule_content \in contents :
        /\ \/ UpsertArchivesWriteFault(rule_name, rule_content)
           \/ UpsertCoreWriteFault(rule_name, rule_content)
        /\ upserts' = Append(upserts, <<rule_name, rule_content>>)
    /\ UNCHANGED <<variant, fs, dirs, mtime, clock, nadds, logs, san, calls>>

\* get_custom_rules called, reading a rule file raises: the archives variant
\* prints the error and returns the rules gathered so far, which are none;
\* the core variant lets the error out
ListRulesFault ==
    /\ \/ /\ variant = "archives"
          /\ RulesFile \in DOMAIN rules
          /\ last' = [op |-> "rules", raised |-> FALSE, results |-> <<>>, fault |-> "read"]
       \/ /\ variant = "core"
          /\ \E name \in DOMAIN rules : Lower(FileStem(name)) \in LikelyRuleNames
          /\ last' = [op |-> "rules", raised |-> TRUE, fault |-> "read"]
    /\ UNCHANGED <<variant, fs, dirs, mtime, clock, nadds, logs, san, rules, upserts, calls>>

\* A store on a failing file system: calls that succeed and calls that meet
\* a fault
MaxFaultAdds == 2
MaxFaultUpserts == 1
\* a body of two lines: one entry fills a document of MaxFileLines lines
FaultBodies == {<<"a", "\n", "b">>}
FaultRuleNames == {<<"x">>, <<"c", "u", "s", "t", "o", "m", "-", "r", "u", "l", "e", "s">>}
AddSound == AddTo(MaxFaultAdds, {<<"f", "e">>}, Sections, FaultBodies, {<<"T">>})
AddFaulty == AddFault(MaxFaultAdds, {<<"f", "e">>}, Sections, FaultBodies, {<<"T">>})
UpsertSound == UpsertRule(MaxFaultUpserts, FaultRuleNames, {<<"v">>})
UpsertFaulty == UpsertFault(MaxFaultUpserts, FaultRuleNames, {<<"v">>})
NextFaults == AddSound \/ AddFaulty \/ UpsertSound \/ UpsertFaulty \/ ListRules \/ ListRulesFault
SpecFaults == Init /\ [][NextFaults]_vars

----------------------------------------------------------------------------
(* Concurrent callers: processes that share the archive directory, each     *)
(* making one call.  Nothing in either variant locks a file, so the steps   *)
(* of two calls interleave between the file system operations.              *)

MaxCallers == 2
Callers == 1..MaxCallers

\* the callers whose call has reached the position pc
CallersAt(pc) == {c \in DOMAIN calls : calls[c].pc = pc}

\* add_to_archives, first step: get_appropriate_archive_file answers (the
\* core variant creating the file it designates) and the content is
\* sanitized
BeginAdd(c, project, section, content, title) ==
    /\ c \notin DOMAIN calls
    /\ \E r \in get_appropriate_archive_file(variant, fs, mtime, clock, project, section) :
        /\ calls' = Put(calls, c,
                        [op |-> "add",
                         pc |-> IF sanitize_content(variant, content).ok
                                THEN "resolved" ELSE "raising",
                         project |-> project, section |-> section,
                         content |-> content, title |-> title,
                         file |-> r.file, is_new_file |-> r.is_new_file,
                         existing_content |-> <<>>])
        /\ fs' = IF variant = "core" THEN CreatedCore(fs, r) ELSE fs
        /\ mtime' = IF variant = "core" /\ r.is_new_file THEN Put(mtime, r.file, clock) ELSE mtime
    /\ dirs' = WithSectionDirs(dirs, project, section)
    /\ UNCHANGED <<variant, clock, nadds, logs, last, san, rules, upserts>>

\* core variant, second step: the existing content of the file is read
ReadExisting(c) ==
    /\ variant = "core"
    /\ c \in CallersAt("resolved")
    /\ ~calls[c].is_new_file
    /\ calls' = Put(calls, c, [calls[c] EXCEPT !.pc = "read",
                                               !.existing_content = fs[calls[c].file]])
    /\ UNCHANGED <<variant, fs, dirs, mtime, clock, nadds, logs, last, san, rules, upserts>>

\* a write of the archives variant that looks for the appropriate file once
\* more before it opens it
ArchivesTargetRechecked(call, files) ==
    ResolveArchives(files, call.project, call.section).file

\* the file the archives variant opens for its write: the one answered at
\* the start of the call
ArchivesTarget(call, files) == call.file

\* the text the call writes
EntryText(call) ==
    IF variant = "core"
    THEN FormatCore(call.is_new_file, call.project, call.section, call.title,
                    call.existing_content, sanitize_content(variant, call.content).val)
    ELSE FormatArchives(call.is_new_file, call.title, clock,
                        sanitize_content(variant, call.content).val)

\* the write: open(archive_file, 'a') and the entry in the archives variant,
\* open(archive_file, 'w') and the content read earlier followed by the
\* entry in the core variant
WriteAdd(c) ==
    /\ c \in DOMAIN calls /\ calls[c].op = "add"
    /\ \/ variant = "archives" /\ c \in CallersAt("resolved")
       \/ variant = "core" /\ c \in CallersAt("read")
       \/ variant = "core" /\ c \in CallersAt("resolved") /\ calls[c].is_new_file
    /\ fs' = IF variant = "core" THEN Put(fs, calls[c].file, EntryText(calls[c]))
             ELSE Put(fs, ArchivesTarget(calls[c], fs),
                      ContentOf(fs, ArchivesTarget(calls[c], fs)) \o EntryText(calls[c]))
    /\ mtime' = IF variant = "core" THEN Put(mtime, calls[c].file, clock) ELSE mtime
    /\ calls' = Put(calls, c, [calls[c] EXCEPT !.pc = "written"])
    /\ UNCHANGED <<variant, dirs, clock, nadds, logs, last, san, rules, upserts>>

\* the call returns the path (the archives variant after log_history), or
\* raises what sanitize_content raised
ReturnAdd(c) ==
    /\ c \in CallersAt("written") \cup CallersAt("raising")
    /\ calls[c].op = "add"
    /\ calls' = Put(calls, c, [calls[c] EXCEPT !.pc = "done"])
    /\ nadds' = nadds + 1
    /\ logs' = IF variant = "archives" /\ calls[c].pc = "written"
               THEN logs \cup {LogName(clock, "add_to_archives")} ELSE logs
    /\ last' = [op |-> "add", project |-> calls[c].project, section |-> calls[c].section,
                content |-> calls[c].content, title |-> calls[c].title,
                raised |-> calls[c].pc = "raising",
                file |-> calls[c].file, is_new_file |-> calls[c].is_new_file]
    /\ UNCHANGED <<variant, fs, dirs, mtime, clock, san, rules, upserts>>

\* update_custom_rules, first step.  archives variant: the rules file is
\* read if it exists; core variant: the file name is made
BeginUpsert(c, rule_name, rule_content) ==
    /\ c \notin DOMAIN calls
    /\ calls' = Put(calls, c,
                    [op |-> "upsert", pc |-> "read",
                     name |-> rule_name, content |-> rule_content,
                     file |-> IF variant = "core" THEN RuleFileName(rule_name) ELSE RulesFile,
                     existing_content |-> IF variant = "core" THEN <<>>
                                          ELSE ReadRules(rules, RulesFile)])
    /\ UNCHANGED <<variant, fs, dirs, mtime, clock, nadds, logs, last, san, rules, upserts>>

\* the write: open(rules_file, 'w') and the document made from the content
\* read earlier in the archives variant, the raw content in the core variant
WriteUpsert(c) ==
    /\ c \in CallersAt("read")
    /\ calls[c].op = "upsert"
    /\ rules' = Put(rules, calls[c].file,
                    IF variant = "core" THEN calls[c].content
                    ELSE UpdateRuleText(calls[c].existing_content, calls[c].name,
                                        sanitize_content(variant, calls[c].content).val))
    /\ calls' = Put(calls, c, [calls[c] EXCEPT !.pc = "written"])
    /\ UNCHANGED <<variant, fs, dirs, mtime, clock, nadds, logs, last, san, upserts>>

\* the call returns the path, the archives variant after log_history
ReturnUpsert(c) ==
    /\ c \in CallersAt("written")
    /\ calls[c].op = "upsert"
    /\ calls' = Put(calls, c, [calls[c] EXCEPT !.pc = "done"])
    /\ upserts' = Append(upserts, <<calls[c].name, calls[c].content>>)
    /\ logs' = IF variant = "archives"
               THEN logs \cup {LogName(clock, "update_custom_rules")} ELSE logs
    /\ last' = [op |-> "upsert", name |-> calls[c].name, content |-> calls[c].content,
                raised |-> FALSE, file |-> calls[c].file]
    /\ UNCHANGED <<variant, fs, dirs, mtime, clock, nadds, san, rules>>

\* Concurrent Add calls to one section, after at most MaxSeedAdds calls made
\* one after the other
MaxSeedAdds == 1
SeedAdd == calls = NoCalls /\ AddTo(MaxSeedAdds, {<<"f", "e">>}, {<<"s">>}, StoreBodies, {<<"T">>})
BeginAdds == \E c \in Callers, content \in Bodies : BeginAdd(c, <<"f", "e">>, <<"s">>, content, <<"T">>)
ReadsExisting == \E c \in Callers : ReadExisting(c)
WritesAdd == \E c \in Callers : WriteAdd(c)
ReturnsAdd == \E c \in Callers : ReturnAdd(c)
NextRace == SeedAdd \/ BeginAdds \/ ReadsExisting \/ WritesAdd \/ ReturnsAdd
SpecRace == Init /\ [][NextRace]_vars

\* Concurrent UpsertRule calls, after at most MaxSeedUpserts calls made one
\* after the other
MaxSeedUpserts == 1
SeedUpsert == calls = NoCalls /\ UpsertRule(MaxSeedUpserts, {<<"z">>}, {<<"v">>})
BeginUpserts == \E c \in Callers, rule_name \in FaultRuleNames, rule_content \in {<<"v">>, <<"w">>} :
                    BeginUpsert(c, rule_name, rule_content)
WritesUpsert == \E c \in Callers : WriteUpsert(c)
ReturnsUpsert == \E c \in Callers : ReturnUpsert(c)
NextRuleRace == SeedUpsert \/ BeginUpserts \/ WritesUpsert \/ ReturnsUpsert
SpecRuleRace == Init /\ [][NextRuleRace]_vars

----------------------------------------------------------------------------
(* Properties *)

IsPrefix(a, b) == Len(a) <= Len(b) /\ SubSeq(b, 1, Len(a)) = a

\* the step is a call of add_to_archives
IsAddStep == nadds' = nadds + 1 /\ last'.op = "add"

\* the documents of the section the step adds to, before the step, and the
\* most recent of them by file name
DocsBefore == GlobMd(fs, SectionDir(last'.project, last'.section))
LatestBefore == LastSorted(DocsBefore)

\* what the step wrote to its target beyond what the target held
TextBefore == IF last'.file \in DOMAIN fs THEN fs[last'.file] ELSE <<>>
TextAdded == Slice(fs'[last'.file], Len(TextBefore) + 1, Len(fs'[last'.file]))

\* the documents a search with the given project filter covers
InScope(p, project) == \E i \in 1..Len(SearchProjects(project)) : p[1] = SearchProjects(project)[i]

ResultsFor(p) == {i \in 1..Len(last.results) : last.results[i].file = p}

HoldsQuery(text, query) == Contains(Lower(text), Lower(query))

\* C1: after Add(project, section, content), Search(q) for a non-empty
\* substring q of the content, with no project filter or with that project
\* as filter, returns a result whose file is the document Add wrote.
C1_RoundTrip ==
    (last.op = "search" /\ last.query # <<>>) =>
        \A p \in DOMAIN fs :
            ( /\ last.project \in {<<>>, p[1]}
              /\ \E c \in Bodies : Contains(c, last.query) /\ Contains(fs[p], c) )
            => ResultsFor(p) # {}

\* C2: an Add that finds the most recent document of its section at or over
\* max_file_lines writes a new document with the next sequence number and
\* leaves the full one unchanged; one that finds it under the limit appends
\* to it.
C2_RotationThreshold ==
    [][ (IsAddStep /\ DocsBefore # {}) =>
          IF LineCount(fs[LatestBefore]) >= MaxFileLines
          THEN /\ last'.file \notin DOMAIN fs
               /\ last'.file[3] = NumberedName(last'.section,
                                      FileNumber(LatestBefore[3]).val + 1)
               /\ fs'[LatestBefore] = fs[LatestBefore]
          ELSE /\ last'.file = LatestBefore
               /\ IsPrefix(fs[LatestBefore], fs'[LatestBefore])
               /\ fs'[LatestBefore] # fs[LatestBefore] ]_vars

C4_Deterministic ==
    \A project \in Projects, section \in Sections :
        \A times \in [DOMAIN fs -> 0..MaxClock], now \in 0..MaxClock :
            /\ get_appropriate_archive_file(variant, fs, times, now, project, section)
                 = get_appropriate_archive_file(variant, fs, mtime, clock, project, section)
            /\ Cardinality(get_appropriate_archive_file(variant, fs, times, now,
                                                        project, section)) = 1

\* C5: no step deletes a document, and the content a document had before a
\* step is a prefix of the content it has after it.
C5_AppendOnly ==
    [][ \A p \in DOMAIN fs : p \in DOMAIN fs' /\ IsPrefix(fs[p], fs'[p]) ]_vars

\* an Add has grown a document that already held an entry
C5_Witness ==
    /\ last.op = "add"
    /\ ~last.is_new_file
    /\ Len(fs[last.file]) > Len(<<"#", " ", "T">> \o Blank2 \o <<"a", " ", "b">>)

\* the default title of the variant in use
DefaultTitle(project, section, now) ==
    IF variant = "core" THEN Capitalize(project) \o <<" ">> \o Capitalize(section)
    ELSE ArchiveEntry \o StampReadable(now)

TitleOrDefault == IF last'.title # <<>> THEN last'.title
                  ELSE DefaultTitle(last'.project, last'.section, clock)

\* C6: an Add to a new document writes "# <title-or-default>" and the body;
\* an Add to an existing document appends, after a horizontal rule, an entry
\* that begins with "## <title-or-default>" and holds the body, whether or
\* not a title was passed.
C6_EntryFormat ==
    [][ IsAddStep =>
          LET body == sanitize_content(variant, last'.content).val
              entry == <<"#", "#", " ">> \o TitleOrDefault \o Blank2 \o body
          IN  IF last'.is_new_file
              THEN TextAdded = <<"#", " ">> \o TitleOrDefault \o Blank2 \o body
              ELSE /\ EndsWith(TextAdded, entry)
                   /\ Contains(Slice(TextAdded, 1, Len(TextAdded) - Len(entry)),
                               <<"-", "-", "-">>) ]_vars

\* C7: sanitizing the result of the sanitizer changes nothing.
C7_Idempotent == san.pc = "twice" => san.out2 = san.out1

\* C8: the sanitizer answers a string for every input string; it never raises.
C8_Total == san.pc # "raised"

\* the in-scope documents that hold the query of the last search
Holders == {p \in DOMAIN fs : InScope(p, last.project) /\ HoldsQuery(fs[p], last.query)}

\* C9: when an in-scope document holds the raw query (case-insensitively),
\* the results are exact-phrase results only (they carry no score), each for
\* a document that holds the query; the core variant answers every such
\* document.  Scored results appear only when no in-scope document holds
\* the query.
C9_ExactFirst ==
    last.op = "search" =>
        /\ Holders # {} =>
            /\ \A i \in 1..Len(last.results) :
                  /\ "score" \notin DOMAIN last.results[i]
                  /\ last.results[i].file \in Holders
            /\ variant = "core" => \A p \in Holders : ResultsFor(p) # {}
        /\ (\E i \in 1..Len(last.results) : "score" \in DOMAIN last.results[i])
              => Holders = {}

\* one in-scope document holds the phrase, another only shares its words, and
\* the search answered the first alone
C9_Witness ==
    /\ variant = "core"
    /\ last.op = "search"
    /\ Len(last.results) = 1
    /\ Cardinality(Holders) = 1
    /\ \E p \in DOMAIN fs :
          /\ InScope(p, last.project)
          /\ p \notin Holders
          /\ score_document(tokenize(last.query), fs[p]).score > 0

\* the "##"-delimited parts of a document that hold the query
MatchingParts(text, query) ==
    LET parts == SplitSections(text, 1, <<>>)
    IN  {k \in 1..Len(parts) : HoldsQuery(parts[k], query)}

\* C10: for a non-empty query and every in-scope document that holds it, the
\* search answers one result per "##"-delimited part of the document that
\* holds the query; a document with a single entry answers exactly one.
C10_PerSection ==
    (last.op = "search" /\ last.query # <<>>) =>
        \A p \in Holders :
            Cardinality(ResultsFor(p)) = Cardinality(MatchingParts(fs[p], last.query))

\* the first position (1-based) at which the query occurs in the text, letter
\* case ignored
FirstAt(text, query) ==
    CHOOSE i \in 1..(Len(text) + 1) :
        /\ StartsAt(Lower(text), i, Lower(query))
        /\ \A j \in 1..(i - 1) : ~StartsAt(Lower(text), j, Lower(query))

\* the window of the text from n characters before position a to n
\* characters after position b, clipped to the text
Window(text, a, b, n) ==
    LET lo == IF a - n < 1 THEN 1 ELSE a - n
        hi == IF b + n > Len(text) THEN Len(text) ELSE b + n
    IN  [k \in 1..(hi - lo + 1) |-> text[lo + k - 1]]

\* C11: the snippet of every exact-phrase result holds the query (letter case
\* ignored) and is the document text from at most 100 characters before the
\* first occurrence of the query to at most 100 characters after its end,
\* clipped to the document.
C11_ExactSnippet ==
    last.op = "search" =>
        \A i \in 1..Len(last.results) :
            LET r == last.results[i]
                at == FirstAt(fs[r.file], last.query)
            IN  "score" \notin DOMAIN r =>
                    /\ HoldsQuery(r.snippet, last.query)
                    /\ r.snippet = Window(fs[r.file], at, at + Len(last.query) - 1, 100)

\* an exact-phrase result whose snippet was cut on both sides of the query
C11_Witness ==
    /\ last.op = "search"
    /\ \E i \in 1..Len(last.results) :
          /\ "score" \notin DOMAIN last.results[i]
          /\ Len(last.results[i].snippet) = 100 + Len(last.query) + 100
          /\ FirstAt(fs[last.results[i].file], last.query) > 101
          /\ Len(fs[last.results[i].file]) > FirstAt(fs[last.results[i].file], last.query)
                                                + Len(last.query) - 1 + 100

\* the token occurs in the text at position i (letter case ignored) with no
\* letter or digit immediately before or after it
WholeWordAt(text, i, token) ==
    /\ i + Len(token) - 1 <= Len(text)
    /\ \A k \in 1..Len(token) : LowerChar(text[i + k - 1]) = LowerChar(token[k])
    /\ i > 1 => ~IsAlnum(text[i - 1])
    /\ i + Len(token) <= Len(text) => ~IsAlnum(text[i + Len(token)])

\* the whole-word occurrences of the query's tokens in the text, one for
\* every token of the query and position of the text
WholeWords(text, query) ==
    {<<k, i>> \in (1..Len(tokenize(query))) \X (1..Len(text)) :
        WholeWordAt(text, i, tokenize(query)[k])}

\* C12: in the token-overlap phase the score of a result is the number of
\* occurrences of the query tokens that have no letter or digit immediately
\* before or after them, and it is positive: an occurrence inside a longer
\* word counts nothing, and a document whose only occurrences are inside
\* longer words is not returned.
C12_WordBoundary ==
    last.op = "search" =>
        \A i \in 1..Len(last.results) :
            "score" \in DOMAIN last.results[i] =>
                /\ last.results[i].score =
                       Cardinality(WholeWords(fs[last.results[i].file], last.query))
                /\ last.results[i].score > 0

\* a token-overlap answer that leaves out a document holding a query token
\* inside a longer word only
C12_Witness ==
    /\ last.op = "search"
    /\ Len(last.results) > 0
    /\ "score" \in DOMAIN last.results[1]
    /\ \E p \in DOMAIN fs :
          /\ ResultsFor(p) = {}
          /\ WholeWords(fs[p], last.query) = {}
          /\ \E k \in 1..Len(tokenize(last.query)) :
                Contains(Lower(fs[p]), tokenize(last.query)[k])

\* C13: the results of the token-overlap phase are in descending order of
\* (score, matched_tokens): of two results the earlier one has the greater
\* score, or the same score and at least as many matched tokens.
C13_Ranking ==
    last.op = "search" =>
        \A i, j \in 1..Len(last.results) :
            (i < j /\ "score" \in DOMAIN last.results[i] /\ "score" \in DOMAIN last.results[j]) =>
                \/ last.results[i].score > last.results[j].score
                \/ /\ last.results[i].score = last.results[j].score
                   /\ last.results[i].matched_tokens >= last.results[j].matched_tokens

\* a token-overlap answer of two results with the same score that the number
\* of matched tokens puts in order
C13_Witness ==
    /\ last.op = "search"
    /\ Len(last.results) = 2
    /\ "score" \in DOMAIN last.results[1]
    /\ last.results[1].score = last.results[2].score
    /\ last.results[1].matched_tokens > last.results[2].matched_tokens

\* the query occurs in the text, or one of its tokens occurs there as a
\* whole word
OccursIn(text, query) ==
    \/ \E i \in 1..Len(text) :
          /\ i + Len(query) - 1 <= Len(text)
          /\ \A k \in 1..Len(query) : LowerChar(text[i + k - 1]) = LowerChar(query[k])
    \/ WholeWords(text, query) # {}

C15_EmptyQuery ==
    (last.op = "search" /\ last.query = <<>>) => last.results = <<>>

\* C16: a search whose project filter names a project without a directory on
\* disk answers the empty list, raises no error and creates no directory or
\* file.
C16_MissingProject ==
    [][(/\ nadds' = nadds
        /\ last'.op = "search"
        /\ last'.project # <<>>
        /\ <<last'.project>> \notin dirs)
           => (/\ last'.results = <<>>
               /\ ~last'.raised
               /\ dirs' = dirs
               /\ fs' = fs)]_vars

\* a search of a non-empty store for a word it holds, filtered to a project
\* that has no directory
C16_Witness ==
    /\ last.op = "search"
    /\ last.project = <<"m", "o", "b">>
    /\ <<last.project>> \notin dirs
    /\ \E p \in DOMAIN fs : HoldsQuery(fs[p], last.query)
    /\ last.query # <<>>
    /\ last.results = <<>>

\* C17: a search without a project filter considers every document on disk:
\* every document that holds the query has a result, in whatever project and
\* section it lies.
C17_Scope ==
    (last.op = "search" /\ last.project = <<>> /\ last.query # <<>> /\ ~last.raised)
        => \A p \in DOMAIN fs : HoldsQuery(fs[p], last.query) => ResultsFor(p) # {}

\* the shared rules document
SharedRules == ReadRules(rules, RulesFile)

\* the positions of a text where a line "## <n>" begins
SectionStarts(doc, n) ==
    {i \in 1..Len(doc) :
        /\ StartsAt(doc, i, <<"#", "#", " ">> \o n \o <<"\n">>)
        /\ i > 1 => doc[i - 1] = "\n"}

\* where the section that begins at i ends: before the next "## " or at the
\* end of the text
SectionEnd(doc, i) ==
    IF \E j \in (i + 1)..Len(doc) : StartsAt(doc, j, <<"#", "#", " ">>)
    THEN (CHOOSE j \in (i + 1)..Len(doc) :
            /\ StartsAt(doc, j, <<"#", "#", " ">>)
            /\ \A k \in (i + 1)..(j - 1) : ~StartsAt(doc, k, <<"#", "#", " ">>)) - 1
    ELSE Len(doc)

\* the body of the section "## <n>" that begins at i, without the white
\* space around it
SectionBody(doc, i, n) == Strip(Slice(doc, i + 3 + Len(n), SectionEnd(doc, i)))

\* the content of the last call that named the rule
LastContent(n) ==
    upserts[CHOOSE k \in 1..Len(upserts) :
                /\ upserts[k][1] = n
                /\ \A m \in (k + 1)..Len(upserts) : upserts[m][1] # n][2]

\* C18: after any sequence of UpsertRule calls that began without a rules
\* document, the document holds for every name upserted exactly one section
\* "## <name>", and the body of that section is the sanitized content of the
\* last call for the name.
C18_UpsertUnique ==
    \A k \in 1..Len(upserts) :
        /\ Cardinality(SectionStarts(SharedRules, upserts[k][1])) = 1
        /\ \A i \in SectionStarts(SharedRules, upserts[k][1]) :
              SectionBody(SharedRules, i, upserts[k][1])
                  = Strip(sanitize_content(variant, LastContent(upserts[k][1])).val)

\* the rules of a listing other than the one named n
RECURSIVE OtherRules(_, _)
OtherRules(listing, n) ==
    IF Len(listing) = 0 THEN <<>>
    ELSE (IF listing[1].name = n THEN <<>> ELSE <<listing[1]>>)
            \o OtherRules(Tail(listing), n)

\* C19: an UpsertRule(n, c) on a rules document that has a section "## <n>"
\* leaves every other rule as it was: the rules that ListRules reports
\* before and after the call, the one named n left out, are the same in
\* name, content and order.
C19_UpsertFrame ==
    [][(/\ Len(upserts') = Len(upserts) + 1
        /\ SectionStarts(SharedRules, last'.name) # {})
           => OtherRules(RulesArchives(rules'), last'.name)
                = OtherRules(RulesArchives(rules), last'.name)]_vars

\* the text of a document before its first "## "
LeadingText(doc) ==
    IF \E j \in 1..Len(doc) : StartsAt(doc, j, <<"#", "#", " ">>)
    THEN Slice(doc, 1, (CHOOSE j \in 1..Len(doc) :
                          /\ StartsAt(doc, j, <<"#", "#", " ">>)
                          /\ \A k \in 1..(j - 1) : ~StartsAt(doc, k, <<"#", "#", " ">>)) - 1)
    ELSE doc

\* the names of the header lines "## <name>" of a document
HeaderNames(doc) ==
    {Strip(Slice(doc, i + 3, Find(doc, <<"\n">>, i + 3) - 1)) :
        i \in {j \in 1..Len(doc) :
                  StartsAt(doc, j, <<"#", "#", " ">>) /\ Find(doc, <<"\n">>, j + 3) # 0}}

\* C20: when a rules document begins with non-blank text before its first
\* "## " header, ListRules reports that text as a rule named general, and
\* reports every section "## <name>" that follows under its own name.
C20_General ==
    last.op = "rules" =>
        \A f \in DOMAIN rules :
            Strip(LeadingText(rules[f])) # <<>> =>
                /\ \E i \in 1..Len(last.results) :
                      /\ last.results[i].name = <<"g", "e", "n", "e", "r", "a", "l">>
                      /\ last.results[i].content = Strip(LeadingText(rules[f]))
                /\ \A n \in HeaderNames(rules[f]) :
                      \E i \in 1..Len(last.results) : last.results[i].name = n

\* the documents whose content a step changed or that it created
ChangedDocs == {p \in DOMAIN fs' : p \notin DOMAIN fs \/ fs'[p] # fs[p]}

\* C30: a call of Add(project, section, ...) changes the content of exactly
\* one document, which lies in that project and section; it removes no
\* document, and every other document and every rule file is as before.
C30_AddFrame ==
    [][IsAddStep =>
          /\ DOMAIN fs \subseteq DOMAIN fs'
          /\ Cardinality(ChangedDocs) = 1
          /\ \A p \in ChangedDocs : p[1] = last'.project /\ p[2] = last'.section
          /\ rules' = rules]_vars

\* an Add has written while a document of another project and a document of
\* another section of its own project exist
C30_Witness ==
    /\ last.op = "add"
    /\ \E q \in DOMAIN fs : q[1] # last.project
    /\ \E q \in DOMAIN fs : q[1] = last.project /\ q[2] # last.section

\* the section directories that hold documents
DocDirs == {<<p[1], p[2]>> : p \in DOMAIN fs}

\* the number of document headers "# ..." a text holds (the "# " inside an
\* entry header "## ..." is none)
HeaderLines(text) ==
    Cardinality({i \in 1..Len(text) :
                    /\ StartsAt(text, i, <<"#", " ">>)
                    /\ i > 1 => text[i - 1] # "#"})

\* C27: whenever ResolveTarget answers that the document is new, the path it
\* designates is not on disk; after any sequence of Adds the documents of a
\* section carry the sequence numbers 1..k and each holds one "# " header.
C27_FreshTarget ==
    /\ \A project \in Projects, section \in Sections :
          \A r \in get_appropriate_archive_file(variant, fs, mtime, clock, project, section) :
              r.is_new_file => r.file \notin DOMAIN fs
    /\ variant = "archives" =>
          \A d \in DocDirs :
              /\ GlobMd(fs, d) = {Append(d, NumberedName(d[2], n)) :
                                    n \in 1..Cardinality(GlobMd(fs, d))}
              /\ \A p \in GlobMd(fs, d) : HeaderLines(fs[p]) = 1

\* C29: in every state reached by Adds made one after another, every document
\* of a section other than the last one by name holds max_file_lines lines or
\* more.
C29_OneOpen ==
    \A d \in DocDirs :
        \A p \in GlobMd(fs, d) :
            p # LastSorted(GlobMd(fs, d)) => LineCount(fs[p]) >= MaxFileLines

\* a section holds two documents
C29_Witness ==
    \E d \in DocDirs : Cardinality(GlobMd(fs, d)) = 2

\* the names of the rules of a listing
RuleNamesOf(listing) == {listing[i].name : i \in 1..Len(listing)}

\* C28: an UpsertRule(n, c) on a rules document that has no rule named
\* exactly n appends a section "## <n>": ListRules reports the rules it
\* reported before, unchanged and in the same order, followed by one more
\* rule, named n (the variant that keeps one shared rules document).
C28_UpsertAppends ==
    [][(/\ variant = "archives"
        /\ Len(upserts') = Len(upserts) + 1
        /\ last'.name \notin RuleNamesOf(RulesArchives(rules)))
           => /\ Len(RulesArchives(rules')) = Len(RulesArchives(rules)) + 1
              /\ SubSeq(RulesArchives(rules'), 1, Len(RulesArchives(rules)))
                    = RulesArchives(rules)
              /\ RulesArchives(rules')[Len(RulesArchives(rules'))].name = last'.name]_vars

\* the token occurs in the lower-cased text at position i with no letter or
\* digit immediately before or after it
TokenAt(text, i, token) ==
    /\ i + Len(token) - 1 <= Len(text)
    /\ \A k \in 1..Len(token) : LowerChar(text[i + k - 1]) = token[k]
    /\ i > 1 => ~IsAlnum(text[i - 1])
    /\ i + Len(token) <= Len(text) => ~IsAlnum(text[i + Len(token)])

\* C24: the score score_document returns is the number of pairs of a query
\* token, each token of the list counted for itself, and a position of the
\* lower-cased text where it occurs as a whole word; and one position is
\* recorded for every one of them.
C24_ScoreSum ==
    san.pc = "scored" =>
        /\ san.score = Cardinality({<<k, i>> \in (1..Len(san.tokens)) \X (1..Len(san.text)) :
                                        TokenAt(san.text, i, san.tokens[k])})
        /\ Len(san.positions) = san.score
        /\ \A j \in 1..Len(san.positions) :
              \E k \in 1..Len(san.tokens) : TokenAt(san.text, san.positions[j], san.tokens[k])

\* a query that repeats a token, scored on a text where the token stands
\* twice as a whole word, once of them in capitals
C24_Witness ==
    /\ san.pc = "scored"
    /\ san.tokens = <<<<"a">>, <<"a">>>>
    /\ san.text = <<"A", " ", "a">>
    /\ san.score = 4

\* the step is a call of add_to_archives or update_custom_rules during which
\* the named file system operation raised
IsFaultStep(kind) ==
    /\ nadds' # nadds \/ upserts' # upserts
    /\ "fault" \in DOMAIN last'
    /\ last'.fault = kind

\* C21: when the write to disk fails during an Add or an UpsertRule, the
\* target document holds after the call what it held before the call.
C21_AllOrNothing ==
    [][IsFaultStep("write") =>
          IF last'.op = "add"
          THEN ContentOf(fs', last'.file) = ContentOf(fs, last'.file)
          ELSE ContentOf(rules', last'.file) = ContentOf(rules, last'.file)]_vars

\* the step is an Add of the archives variant that finds the latest document
\* of its section full and cannot read a sequence number from its name
IsUnnumberedStep ==
    /\ IsAddStep
    /\ variant = "archives"
    /\ "fault" \notin DOMAIN last'
    /\ DocsBefore # {}
    /\ LineCount(fs[LatestBefore]) >= MaxFileLines
    /\ ~FileNumber(LatestBefore[Len(LatestBefore)]).ok

\* C22: a call that meets a file system failure or a document name without
\* a sequence number fails; it does not return a result.
C22_Propagates ==
    [][(/\ last' # last
        /\ \/ "fault" \in DOMAIN last'
           \/ IsUnnumberedStep)
          => last'.raised]_vars

\* the step is the write of caller c, which had been answered an existing
\* file
IsAppendBy(c) ==
    /\ c \in CallersAt("resolved")
    /\ calls[c].op = "add"
    /\ ~calls[c].is_new_file
    /\ calls'[c].pc = "written"

\* C23: a call of the archives variant that was answered the current
\* document of its section appends its entry to that document, whatever the
\* document has become in the meantime, and writes nowhere else: two calls
\* answered the same document both append to it and neither starts the next
\* one.
C23_RotationRace ==
    [][\A c \in Callers :
          (variant = "archives" /\ IsAppendBy(c))
             => fs' = Put(fs, calls[c].file,
                          fs[calls[c].file]
                             \o FormatArchives(FALSE, calls[c].title, clock,
                                               sanitize_content(variant, calls[c].content).val))]_vars

\* both callers were answered the one document of the section while it was
\* under the limit, both have appended and returned, and the document holds
\* the two entries after the one it began with, more lines than
\* MaxFileLines allows a call to add to
C23_Witness ==
    /\ variant = "archives"
    /\ CallersAt("done") = {1, 2}
    /\ calls[1].file = calls[2].file
    /\ ~calls[1].is_new_file /\ ~calls[2].is_new_file
    /\ GlobMd(fs, SectionDir(<<"f", "e">>, <<"s">>)) = {calls[1].file}
    /\ Contains(fs[calls[1].file], <<"#", "#", " ", "T", "\n", "\n", "a", " ", "b", "\n", "\n", "#", "#", " ", "T", "\n", "\n", "b", " ", "a">>)
    /\ LineCount(fs[calls[1].file]) > MaxFileLines + 4

\* the documents of the section of a call that hold its sanitized content
HoldersOf(call) ==
    {p \in GlobMd(fs, SectionDir(call.project, call.section)) :
        Contains(fs[p], sanitize_content(variant, call.content).val)}

\* C25: once two concurrent Add calls to one section have both returned
\* successfully, the body of either entry stands in a document of the
\* section.
C25_NoLostEntry ==
    \A c \in CallersAt("done") :
        (calls[c].op = "add" /\ \A d \in Callers : d \in CallersAt("done"))
            => HoldersOf(calls[c]) # {}

\* the rule of the call is in the rules on disk: under its header in the
\* shared rules document, or as its own file where each rule has one
HasRule(call) ==
    IF variant = "core" THEN call.file \in DOMAIN rules
    ELSE Contains(ContentOf(rules, RulesFile), HeaderOf(call.name))

\* C26: once two concurrent UpsertRule calls with different rule names have
\* both returned successfully, both rules are in the rules document.
C26_NoLostRule ==
    \A c, d \in CallersAt("done") :
        (calls[c].op = "upsert" /\ calls[d].op = "upsert" /\ calls[c].name # calls[d].name)
            => HasRule(calls[c]) /\ HasRule(calls[d])

====
